---- MODULE Spec2Model ----
(***************************************************************************)
(* kgs_otel: the gin HTTP tracing middleware (package otelgin), the gRPC   *)
(* stats handler (package otelgrpc) and the logging helper (package        *)
(* kgsotel), as state machines over the spans they start, the metric       *)
(* samples they record and the log records they emit.                      *)
(***************************************************************************)
EXTENDS Integers, Sequences, FiniteSets, Bags, TLC

\* ------------------------------------------------------------------ bounds
\* HTTP requests served through one Tracing middleware.
MaxReqs == 2
\* RPC calls handled through one stats handler.
MaxCalls == 1
\* Payload events of one direction within one RPC call.
MaxMsgs == 2
\* End events handled on a context that carries no Call Context.
MaxUntagged == 1
\* Calls the application makes of the shutdown function InitTelemetry returned.
MaxShutdowns == 2
\* RPC calls in progress at once through one stats handler.
MaxConcurrent == 2
\* Options a middleware is constructed with.
MaxOpts == 2
\* Spans the application starts with StartTrace.
MaxTraces == 1
\* Info/Warn/Error calls the application makes.
MaxLogs == 2

VARIABLES
    httpCfg,   \* otelgin config held by the handler Tracing returned
    reqs,      \* per HTTP request: the gin.Context and Tracing's frame
    mw,        \* otelgrpc middleware: role and config
    calls,     \* per RPC call: the context TagRPC returned, and the events seen
    spans,     \* owner -> the spans started in that owner's context
    recorded,  \* instrument name -> bag of samples recorded on it
    logs,        \* the log records the helper emitted through zap.L(), in order
    helperCalls, \* the Info/Warn/Error calls made so far, in order
    handled,     \* the errors passed to otel.Handle at construction
    created,     \* instrument name -> what the meter returns when asked to create it
    telemetry    \* InitTelemetry's frame, the OTel globals and the shutdown calls made

\* Process-wide state outside the two middlewares.
processVars == <<logs, helperCalls, handled, created, telemetry>>

vars == <<httpCfg, reqs, mw, calls, spans, recorded, logs, helperCalls, handled, created,
          telemetry>>

\* ---------------------------------------------------------------- telemetry
\* Owners of spans and samples: the request or call whose context carried them.
HttpOwner(r) == <<"http", r>>
RpcOwner(c) == <<"rpc", c>>
AppOwner == <<"app", 1>>
Owners ==
    {HttpOwner(r) : r \in 1..MaxReqs} \cup {RpcOwner(c) : c \in 1..MaxCalls + MaxConcurrent} \cup {AppOwner}

\* The instruments of each middleware, in the order construction creates them.
HttpInstrumentOrder ==
    <<"http.server.request.duration", "http.server.request.body.size",
      "http.server.response.body.size", "http.server.active_requests">>

RpcInstrumentOrder(role) ==
    <<"rpc." \o role \o ".duration", "rpc." \o role \o ".request.size",
      "rpc." \o role \o ".response.size", "rpc." \o role \o ".requests_per_rpc",
      "rpc." \o role \o ".responses_per_rpc">>

Range(seq) == {seq[i] : i \in 1..Len(seq)}

HttpInstruments == Range(HttpInstrumentOrder)

RpcInstrumentsOf(role) == Range(RpcInstrumentOrder(role))

Instruments == HttpInstruments \cup RpcInstrumentsOf("server") \cup RpcInstrumentsOf("client")

\* The provider otel.GetTracerProvider() and otel.GetMeterProvider() return, and
\* the one otel.Tracer and otel.Meter draw from.
GlobalProvider == "global"

\* ------------------------------------------------------ context propagation
\* trace.SpanContext: the all-zero identifiers are the invalid ones.
ZeroTraceID == "00000000000000000000000000000000"
ZeroSpanID == "0000000000000000"
NoSpanContext ==
    [TraceID |-> ZeroTraceID, SpanID |-> ZeroSpanID, Sampled |-> FALSE, Remote |-> FALSE]
IsValid(sc) == sc.TraceID # ZeroTraceID /\ sc.SpanID # ZeroSpanID

\* A carrier (propagation.TextMapCarrier over http.Header or metadata.MD): keys
\* to lists of values; Get is the first value or "", Set replaces the list.
EmptyCarrier == [k \in {} |-> <<>>]
Get(carrier, key) ==
    IF key \in DOMAIN carrier /\ carrier[key] # <<>> THEN carrier[key][1] ELSE ""
Set(carrier, key, value) ==
    [k \in DOMAIN carrier \cup {key} |-> IF k = key THEN <<value>> ELSE carrier[k]]

HexDigits == {"0", "1", "2", "3", "4", "5", "6", "7", "8", "9", "a", "b", "c", "d", "e", "f"}
IsHex(s) == \A i \in 1..Len(s) : SubSeq(s, i, i) \in HexDigits

\* The trace-context format: version-traceid-spanid-flags in lower-case hex.
FormatTraceParent(sc) ==
    "00-" \o sc.TraceID \o "-" \o sc.SpanID \o "-" \o (IF sc.Sampled THEN "01" ELSE "00")
ParseTraceParent(h) ==
    LET version == SubSeq(h, 1, 2)
        traceID == SubSeq(h, 4, 35)
        spanID == SubSeq(h, 37, 52)
        flags == SubSeq(h, 54, 55)
        wellFormed ==
            /\ Len(h) = 55
            /\ SubSeq(h, 3, 3) = "-" /\ SubSeq(h, 36, 36) = "-" /\ SubSeq(h, 53, 53) = "-"
            /\ IsHex(version) /\ IsHex(traceID) /\ IsHex(spanID) /\ IsHex(flags)
            /\ version = "00"
    IN IF wellFormed
       THEN [TraceID |-> traceID, SpanID |-> spanID,
             Sampled |-> flags \in {"01", "03"}, Remote |-> TRUE]
       ELSE NoSpanContext

\* The baggage format: key=value members; a value without a member is dropped.
IsBaggage(s) == \E i \in 2..(Len(s) - 1) : SubSeq(s, i, i) = "="

\* One format of the composite codec writing ctx into a carrier: nothing is
\* written for a context without a valid span context, or without baggage.
InjectFormat(format, ctx, carrier) ==
    CASE format = "tracecontext" ->
            IF IsValid(ctx.sc) THEN Set(carrier, "traceparent", FormatTraceParent(ctx.sc))
            ELSE carrier
      [] format = "baggage" ->
            IF ctx.baggage # "" THEN Set(carrier, "baggage", ctx.baggage) ELSE carrier

\* One format of the composite codec reading a carrier into ctx: a missing or
\* malformed field leaves ctx as it is.
ExtractFormat(format, ctx, carrier) ==
    CASE format = "tracecontext" ->
            LET sc == ParseTraceParent(Get(carrier, "traceparent"))
            IN IF IsValid(sc) THEN [ctx EXCEPT !.sc = sc] ELSE ctx
      [] format = "baggage" ->
            LET b == Get(carrier, "baggage")
            IN IF IsBaggage(b) THEN [ctx EXCEPT !.baggage = b] ELSE ctx

\* propagation.NewCompositeTextMapPropagator(formats...); the nil propagator is
\* what an option may carry.
Composite(formats) == [nil |-> FALSE, formats |-> formats]
NilPropagator == [nil |-> TRUE, formats |-> <<>>]

\* TextMapPropagator.Inject / Extract of a composite: each format in turn.
RECURSIVE InjectAll(_, _, _)
InjectAll(formats, ctx, carrier) ==
    IF formats = <<>> THEN carrier
    ELSE InjectAll(Tail(formats), ctx, InjectFormat(Head(formats), ctx, carrier))
Inject(propagators, ctx, carrier) == InjectAll(propagators.formats, ctx, carrier)

RECURSIVE ExtractAll(_, _, _)
ExtractAll(formats, ctx, carrier) ==
    IF formats = <<>> THEN ctx
    ELSE ExtractAll(Tail(formats), ExtractFormat(Head(formats), ctx, carrier), carrier)
Extract(propagators, ctx, carrier) == ExtractAll(propagators.formats, ctx, carrier)

\* A mutant of initPropagator: the composite lacks the trace-context format.
initPropagatorBaggageOnly == Composite(<<"baggage">>)

\* initPropagator: the propagator it installs with otel.SetTextMapPropagator.
initPropagator == Composite(<<"tracecontext", "baggage">>)

\* otel.GetTextMapPropagator() in a process InitTelemetry has set up.
GlobalPropagator == initPropagator

\* A context: the span context of its current span, its baggage, and the
\* incoming and outgoing carriers it holds.
ContextWith(incoming) ==
    [sc |-> NoSpanContext, baggage |-> "", incoming |-> incoming, outgoing |-> EmptyCarrier]

\* tracer.Start: a new span of the tracer's provider, not ended, status Unset.
StartSpan(tracer, name, kind, attrs) ==
    [provider |-> tracer, name |-> name, kind |-> kind, attrs |-> attrs,
     events |-> <<>>, status |-> "Unset", msg |-> "", ends |-> 0,
     sc |-> NoSpanContext, parent |-> NoSpanContext]

\* The identifiers the SDK's generator draws for the span of an owner.
NewIDs(owner) ==
    [TraceID |-> "4bf92f3577b34da6a3ce929d0e0e473" \o ToString(owner[2]),
     SpanID |-> "00f067aa0ba902b" \o ToString(owner[2])]

\* tracer.Start under a parent span context: the span joins the trace of a valid
\* parent and starts a trace of its own otherwise; every span is sampled.
WithParent(span, parent, ids) ==
    [span EXCEPT !.parent = parent,
                 !.sc = [TraceID |-> IF IsValid(parent) THEN parent.TraceID ELSE ids.TraceID,
                         SpanID |-> ids.SpanID, Sampled |-> TRUE, Remote |-> FALSE]]

\* span.SetStatus: Unset never overrides, the description is kept for Error only.
SetStatus(span, code, msg) ==
    IF code = "Unset" THEN span
    ELSE [span EXCEPT !.status = code, !.msg = IF code = "Error" THEN msg ELSE ""]

\* span.SetAttributes: keys are unique, a later value replaces an earlier one.
SetAttributes(span, kvs) ==
    [span EXCEPT !.attrs = {a \in @ : \A b \in kvs : a[1] # b[1]} \cup kvs]

\* span.AddEvent(name)
AddEvent(span, name) == [span EXCEPT !.events = Append(@, name)]

\* span.End
EndSpan(span) == [span EXCEPT !.ends = @ + 1]

\* instrument.Record / instrument.Add: one more sample on the instrument.
Record(rec, inst, sample) == [rec EXCEPT ![inst] = @ (+) SetToBag({sample})]

\* What a meter returns for an instrument: the instrument ("ok"), nil and an
\* error ("errNil"), or an instrument and an error ("errInst").
Outcomes == {"ok", "errNil", "errInst"}
NewInstrument(outcome) ==
    [inst |-> IF outcome = "errNil" THEN "nil" ELSE "real", err |-> outcome # "ok"]
AllCreated == [i \in Instruments |-> "ok"]

\* A mutant of instrumentOrNoop: the config field keeps what the meter returned.
instrumentAsReturned(made) == made.inst

\* The config field after
\*   field, err = meter.X(...); if err != nil { otel.Handle(err); if field == nil { field = noop.X{} } }
instrumentOrNoop(made) ==
    IF made.err /\ made.inst = "nil" THEN "noop" ELSE made.inst

\* The errors that construction passes to otel.Handle, named by instrument.
Handled(order, made) ==
    LET Failed(i) == NewInstrument(made[i]).err IN SelectSeq(order, Failed)

\* Record/Add called on config fields in order: a no-op instrument drops its
\* sample, a nil field makes the call panic (ok is FALSE) and ends the sequence.
RECURSIVE RecordAll(_, _, _)
RecordAll(insts, rec, samples) ==
    IF samples = <<>> THEN [rec |-> rec, ok |-> TRUE]
    ELSE LET h == Head(samples)
         IN IF insts[h.inst] = "nil" THEN [rec |-> rec, ok |-> FALSE]
            ELSE RecordAll(insts,
                           IF insts[h.inst] = "real" THEN Record(rec, h.inst, h.sample)
                           ELSE rec,
                           Tail(samples))

RECURSIVE Copies(_, _)
Copies(b, S) ==
    IF S = {} THEN 0 ELSE LET s == CHOOSE x \in S : TRUE IN b[s] + Copies(b, S \ {s})

\* The number of samples an owner has on an instrument.
SamplesOf(inst, owner) ==
    Copies(recorded[inst], {s \in BagToSet(recorded[inst]) : s.owner = owner})

\* ------------------------------------------------------- otelgin: options
\* Filter predicates over *http.Request a caller may register.
Filter(f, req) ==
    CASE f = "notHealth" -> req.path # "/health"
      [] f = "notVersion" -> req.path # "/version"

\* The routes registered with the engine; c.FullPath() is "" when none matched.
Routes == {"/hello", "/health"}
FullPath(req) == IF req.path \in Routes THEN req.path ELSE ""

\* GinFilter predicates over *gin.Context a caller may register.
GinFilter(g, req) ==
    CASE g = "routed" -> FullPath(req) # ""

\* Span name formatters a caller may register.
SpanNameFormatter(f, req) ==
    CASE f = "methodPath" -> req.method \o " " \o req.path
      [] f = "empty" -> ""

WithFilter(fs) == [opt |-> "WithFilter", arg |-> fs]
WithGinFilter(gs) == [opt |-> "WithGinFilter", arg |-> gs]
WithSpanNameFormatter(f) == [opt |-> "WithSpanNameFormatter", arg |-> f]
WithTracerProvider(provider) == [opt |-> "WithTracerProvider", arg |-> provider]
WithMeterProvider(provider) == [opt |-> "WithMeterProvider", arg |-> provider]
WithPropagators(propagators) == [opt |-> "WithPropagators", arg |-> propagators]

\* A mutant of HttpApply: the provider and propagator options assign what they
\* carry, nil included.
HttpApplyNilOverrides(cfg, o) ==
    CASE o.opt = "WithFilter" -> [cfg EXCEPT !.Filters = @ \o o.arg]
      [] o.opt = "WithGinFilter" -> [cfg EXCEPT !.GinFilters = @ \o o.arg]
      [] o.opt = "WithSpanNameFormatter" -> [cfg EXCEPT !.SpanNameFormatter = o.arg]
      [] o.opt = "WithTracerProvider" -> [cfg EXCEPT !.TracerProvider = o.arg]
      [] o.opt = "WithMeterProvider" -> [cfg EXCEPT !.MeterProvider = o.arg]
      [] o.opt = "WithPropagators" -> [cfg EXCEPT !.Propagators = o.arg]

\* option.apply(&cfg)
HttpApply(cfg, o) ==
    CASE o.opt = "WithFilter" -> [cfg EXCEPT !.Filters = @ \o o.arg]
      [] o.opt = "WithGinFilter" -> [cfg EXCEPT !.GinFilters = @ \o o.arg]
      [] o.opt = "WithSpanNameFormatter" -> [cfg EXCEPT !.SpanNameFormatter = o.arg]
      [] o.opt = "WithTracerProvider" ->
            IF o.arg # "nil" THEN [cfg EXCEPT !.TracerProvider = o.arg] ELSE cfg
      [] o.opt = "WithMeterProvider" ->
            IF o.arg # "nil" THEN [cfg EXCEPT !.MeterProvider = o.arg] ELSE cfg
      [] o.opt = "WithPropagators" ->
            IF ~o.arg.nil THEN [cfg EXCEPT !.Propagators = o.arg] ELSE cfg

RECURSIVE HttpApplyAll(_, _)
HttpApplyAll(cfg, opts) ==
    IF opts = <<>> THEN cfg ELSE HttpApplyAll(HttpApply(cfg, Head(opts)), Tail(opts))

\* Tracing(serviceName, opts...): the config, the tracer and the meter the
\* returned handler closes over, with a meter that creates instruments as made.
Tracing(opts, made) ==
    LET cfg == HttpApplyAll([Filters |-> <<>>, GinFilters |-> <<>>,
                             SpanNameFormatter |-> "nil",
                             TracerProvider |-> "nil", MeterProvider |-> "nil",
                             Propagators |-> NilPropagator], opts)
    IN [Filters |-> cfg.Filters, GinFilters |-> cfg.GinFilters,
        Propagators |-> IF cfg.Propagators.nil THEN GlobalPropagator ELSE cfg.Propagators,
        SpanNameFormatter |-> cfg.SpanNameFormatter,
        TracerProvider |-> IF cfg.TracerProvider = "nil" THEN GlobalProvider
                           ELSE cfg.TracerProvider,
        MeterProvider |-> IF cfg.MeterProvider = "nil" THEN GlobalProvider
                          ELSE cfg.MeterProvider,
        tracer |-> GlobalProvider,
        meter |-> GlobalProvider,
        instruments |-> [i \in HttpInstruments |-> instrumentOrNoop(NewInstrument(made[i]))],
        opts |-> opts]

\* ------------------------------------------------------ otelgin: a request
\* semconvutil.HTTPServerRequest: span attributes of the request.
HTTPServerRequest(req) ==
    {<<"http.method", req.method>>, <<"http.target", req.path>>}

\* semconvutil.HTTPServerRequestMetrics: the reduced set for metrics.
HTTPServerRequestMetrics(req) == {<<"http.method", req.method>>}

\* semconvutil.HTTPServerStatus: span status of a response status code.
HTTPServerStatus(status) ==
    IF status < 100 \/ status >= 600 THEN <<"Error", "Invalid HTTP status code">>
    ELSE IF status >= 500 THEN <<"Error", "">>
    ELSE <<"Unset", "">>

RECURSIVE SumLen(_)
SumLen(values) == IF values = <<>> THEN 0 ELSE Len(Head(values)) + SumLen(Tail(values))

\* A mutant of HeaderSize: the two bytes per header are left out.
RECURSIVE HeaderSizeNoSeparator(_, _)
HeaderSizeNoSeparator(header, names) ==
    IF names = {} THEN 0
    ELSE LET name == CHOOSE n \in names : TRUE
         IN Len(name) + SumLen(header[name]) + HeaderSizeNoSeparator(header, names \ {name})

RECURSIVE HeaderSize(_, _)
HeaderSize(header, names) ==
    IF names = {} THEN 0
    ELSE LET name == CHOOSE n \in names : TRUE
         IN Len(name) + 2 + SumLen(header[name]) + HeaderSize(header, names \ {name})

\* The body of the JSON error response calcReqSize aborts with.
AbortBodyLen == Len("{\"error\":\"failed to read request body\"}")

\* c.Request.Body: the bytes a reader still gets from it, and whether reading fails.
RequestBody(req) == [bytes |-> req.body, fails |-> req.bodyErr]

\* io.ReadAll(body): the data obtained, the error, and the body once read.
ReadAll(body) ==
    IF body.fails THEN [data |-> "", err |-> TRUE, rest |-> [body EXCEPT !.bytes = ""]]
    ELSE [data |-> body.bytes, err |-> FALSE, rest |-> [body EXCEPT !.bytes = ""]]

\* io.NopCloser(bytes.NewReader(b))
NewReader(b) == [bytes |-> b, fails |-> FALSE]

\* A mutant of calcReqSize: a failed read is sized as 0 and the request goes on.
calcReqSizeNoAbort(req) ==
    LET read == ReadAll(RequestBody(req))
    IN [ok |-> TRUE,
        size |-> IF read.err THEN 0
                 ELSE HeaderSize(req.header, DOMAIN req.header) + Len(read.data),
        Body |-> IF read.err THEN read.rest ELSE NewReader(read.data)]

\* A mutant of calcReqSize: the body is left as io.ReadAll drained it.
calcReqSizeDrained(req) ==
    LET read == ReadAll(RequestBody(req))
    IN IF read.err THEN [ok |-> FALSE, size |-> 0, Body |-> read.rest]
       ELSE [ok |-> TRUE,
             size |-> HeaderSize(req.header, DOMAIN req.header) + Len(read.data),
             Body |-> read.rest]

\* calcReqSize(c): ok is FALSE when io.ReadAll failed and the request was
\* aborted; Body is c.Request.Body as the function leaves it.
calcReqSize(req) ==
    LET read == ReadAll(RequestBody(req))
    IN IF read.err THEN [ok |-> FALSE, size |-> 0, Body |-> read.rest]
       ELSE [ok |-> TRUE,
             size |-> HeaderSize(req.header, DOMAIN req.header) + Len(read.data),
             Body |-> NewReader(read.data)]

\* A mutant of Admitted: only the first registered filter is consulted.
AdmittedFirstOnly(cfg, req) ==
    Len(cfg.Filters) = 0 \/ Filter(cfg.Filters[1], req)

\* A mutant of FilterLoop: every filter is evaluated, whatever the earlier
\* ones returned.
RECURSIVE FilterLoopExhaustive(_, _)
FilterLoopExhaustive(filters, req) ==
    IF filters = <<>> THEN <<>>
    ELSE <<[f |-> Head(filters), result |-> Filter(Head(filters), req)]>>
            \o FilterLoopExhaustive(Tail(filters), req)

\* for _, f := range cfg.Filters: the filters the loop evaluates on req, in
\* order, with what each returned; the loop is left at the first false.
RECURSIVE FilterLoop(_, _)
FilterLoop(filters, req) ==
    IF filters = <<>> THEN <<>>
    ELSE IF ~Filter(Head(filters), req)
         THEN <<[f |-> Head(filters), result |-> FALSE]>>
         ELSE <<[f |-> Head(filters), result |-> TRUE]>> \o FilterLoop(Tail(filters), req)

\* The filter loop of the handler: no registered Filter rejects the request.
Admitted(cfg, req) ==
    \A e \in Range(FilterLoop(cfg.Filters, req)) : e.result

\* The name the handler asks for: the matched route, or the formatter's result
\* when a formatter is configured.
chosenName(cfg, req) ==
    IF cfg.SpanNameFormatter = "nil" THEN FullPath(req)
    ELSE SpanNameFormatter(cfg.SpanNameFormatter, req)

\* The span name: the chosen name, or the literal when that is empty.
spanNameOf(method, chosen) ==
    IF chosen = "" THEN "HTTP " \o method \o " route not found" ELSE chosen

\* A mutant of routeAttrs: the route attribute is attached whatever the name.
routeAttrsAlways(chosen) == {<<"http.route", chosen>>}

\* rAttr, appended to the span options and to the metric attributes when a
\* name was chosen.
routeAttrs(chosen) == IF chosen = "" THEN {} ELSE {<<"http.route", chosen>>}

\* A mutant of respSizeOf: the size is recorded as the writer reports it.
respSizeAsReported(size) == size

\* respSize := c.Writer.Size(); if respSize < 0 { respSize = 0 }
respSizeOf(size) == IF size < 0 THEN 0 ELSE size

IdleReq ==
    [pc |-> "idle", req |-> <<>>, traced |-> FALSE, aborted |-> FALSE,
     status |-> 200, size |-> -1, errors |-> FALSE, panicked |-> FALSE,
     handlerRuns |-> 0, reqSize |-> 0, metricAttrs |-> {},
     Body |-> NewReader(""), bodyRead |-> [data |-> "", err |-> FALSE],
     crashed |-> FALSE, evaluated |-> <<>>, nextCalls |-> 0,
     ctx |-> ContextWith(EmptyCarrier), savedCtx |-> ContextWith(EmptyCarrier),
     handler |-> <<>>]

\* A mutant of deferSpanEnd: the span is ended where the defer statement stands.
spanEndAtOnce(span) == EndSpan(span)

\* defer span.End(): the span stays as it is until the handler returns or unwinds.
deferSpanEnd(span) == span

\* propagation.HeaderCarrier(c.Request.Header): Get looks a key up under its
\* canonical header name.
CanonicalKey(key) ==
    CASE key = "traceparent" -> "Traceparent"
      [] key = "baggage" -> "Baggage"
HeaderCarrier(header) ==
    [k \in {key \in {"traceparent", "baggage"} : CanonicalKey(key) \in DOMAIN header} |->
        header[CanonicalKey(k)]]

\* A mutant of deferRestore: the request keeps the context it has on return.
restoreSkipped(c) == c

\* defer func() { c.Request = c.Request.WithContext(savedCtx) }()
deferRestore(c) == [c EXCEPT !.ctx = c.savedCtx]

\* The context a downstream handler puts on the request when it replaces the
\* one it found: a child of that context.
HandlerContext(ctx) == [ctx EXCEPT !.baggage = "downstream"]

\* The handler Tracing returned, from its entry to its call of c.Next(). ctx is
\* c.Request.Context(); savedCtx is the local of that name for an admitted
\* request and records the context on entry for a rejected one.
TracingEnter(r, req) ==
    /\ reqs[r].pc = "idle"
    /\ IF ~Admitted(httpCfg, req)
       THEN /\ reqs' = [reqs EXCEPT ![r] =
                            [@ EXCEPT !.pc = "next", !.req = req,
                                      !.evaluated = FilterLoop(httpCfg.Filters, req),
                                      !.savedCtx = reqs[r].ctx,
                                      !.Body = RequestBody(req)]]
            /\ UNCHANGED <<spans, recorded>>
       ELSE LET chosen == chosenName(httpCfg, req)
                spanName == spanNameOf(req.method, chosen)
                attrs == HTTPServerRequest(req) \cup routeAttrs(chosen)
                metricAttrs == HTTPServerRequestMetrics(req) \cup routeAttrs(chosen)
                sized == calcReqSize(req)
                savedCtx == reqs[r].ctx
                ctx == Extract(httpCfg.Propagators, savedCtx, HeaderCarrier(req.header))
                span == WithParent(StartSpan(httpCfg.tracer, spanName, "server", attrs),
                                   ctx.sc, NewIDs(HttpOwner(r)))
            IN /\ spans' = [spans EXCEPT ![HttpOwner(r)] = Append(@, deferSpanEnd(span))]
               /\ reqs' = [reqs EXCEPT ![r] =
                             [@ EXCEPT !.pc = "next", !.req = req, !.traced = TRUE,
                                       !.evaluated = FilterLoop(httpCfg.Filters, req),
                                       !.aborted = ~sized.ok,
                                       !.status = IF sized.ok THEN @ ELSE 500,
                                       !.size = IF sized.ok THEN @ ELSE AbortBodyLen,
                                       !.reqSize = sized.size,
                                       !.Body = sized.Body,
                                       !.savedCtx = savedCtx,
                                       !.ctx = [ctx EXCEPT !.sc = span.sc],
                                       !.metricAttrs = metricAttrs]]
               /\ UNCHANGED recorded
    /\ UNCHANGED <<processVars, httpCfg, mw, calls>>

\* c.Next(): the downstream handlers run, unless the request was aborted. The
\* downstream handler reads the request body and ends with outcome out, or panics;
\* handler records the context it saw on the request and the one it left there.
CNext(r, out) ==
    /\ reqs[r].pc = "next"
    /\ LET c == reqs[r]
           read == ReadAll(c.Body)
           left == IF out.ctx = "replaced" THEN HandlerContext(c.ctx) ELSE c.ctx
       IN reqs' = [reqs EXCEPT ![r] =
                     IF c.aborted
                     THEN [c EXCEPT !.pc = IF c.traced THEN "after" ELSE "done",
                                    !.nextCalls = c.nextCalls + 1]
                     ELSE [c EXCEPT !.pc = IF ~c.traced THEN "done"
                                           ELSE IF out.panic THEN "unwind" ELSE "after",
                                    !.status = out.status, !.size = out.size,
                                    !.errors = out.errors, !.panicked = out.panic,
                                    !.handlerRuns = c.handlerRuns + 1,
                                    !.nextCalls = c.nextCalls + 1,
                                    !.handler = <<[seen |-> c.ctx, left |-> left]>>,
                                    !.ctx = left,
                                    !.Body = read.rest,
                                    !.bodyRead = [data |-> read.data, err |-> read.err]]]
    /\ UNCHANGED <<processVars, httpCfg, mw, calls, spans, recorded>>

\* The handler Tracing returned, from the return of c.Next() to its own return,
\* deferred calls included.
TracingReturn(r) ==
    /\ reqs[r].pc = "after"
    /\ LET c == reqs[r]
           o == HttpOwner(r)
           respSize == respSizeOf(c.size)
           st == HTTPServerStatus(c.status)
           statusAttr == IF c.status > 0 THEN {<<"http.status_code", c.status>>} ELSE {}
           errAttr == IF c.errors THEN {<<"gin.errors", "errors">>} ELSE {}
           finalAttrs == c.metricAttrs \cup statusAttr \cup errAttr
           n == Len(spans[o])
           sizes == RecordAll(httpCfg.instruments, recorded,
                       << [inst |-> "http.server.request.body.size",
                           sample |-> [owner |-> o, value |-> c.reqSize,
                                       attrs |-> c.metricAttrs]],
                          [inst |-> "http.server.response.body.size",
                           sample |-> [owner |-> o, value |-> respSize,
                                       attrs |-> c.metricAttrs]] >>)
           rest == RecordAll(httpCfg.instruments, sizes.rec,
                       << [inst |-> "http.server.request.duration",
                           sample |-> [owner |-> o, attrs |-> finalAttrs]],
                          [inst |-> "http.server.active_requests",
                           sample |-> [owner |-> o, value |-> 1, attrs |-> finalAttrs]] >>)
       IN /\ spans' = [spans EXCEPT ![o][n] =
                          IF sizes.ok
                          THEN EndSpan(SetAttributes(SetStatus(@, st[1], st[2]),
                                                     statusAttr \cup errAttr))
                          ELSE EndSpan(SetStatus(@, st[1], st[2]))]
          /\ recorded' = IF sizes.ok THEN rest.rec ELSE sizes.rec
          /\ reqs' = [reqs EXCEPT ![r] =
                        deferRestore([c EXCEPT !.pc = "done",
                                               !.crashed = ~(sizes.ok /\ rest.ok)])]
    /\ UNCHANGED <<processVars, httpCfg, mw, calls>>

\* A panic of the downstream handler unwinds through Tracing: only the deferred
\* calls run.
TracingUnwind(r) ==
    /\ reqs[r].pc = "unwind"
    /\ LET o == HttpOwner(r)
           n == Len(spans[o])
       IN spans' = [spans EXCEPT ![o][n] = EndSpan(@)]
    /\ reqs' = [reqs EXCEPT ![r] = deferRestore([reqs[r] EXCEPT !.pc = "done"])]
    /\ UNCHANGED <<processVars, httpCfg, mw, calls, recorded>>

\* Option lists the middleware is constructed with.
HttpOptionLists ==
    { <<>>,
      <<WithFilter(<<"notHealth">>)>>,
      <<WithFilter(<<"notHealth">>), WithFilter(<<"notVersion">>)>>,
      <<WithGinFilter(<<"routed">>)>>,
      <<WithFilter(<<"notHealth">>), WithGinFilter(<<"routed">>)>> }

\* Requests the server receives.
HttpRequests ==
    { [method |-> "GET", path |-> p, bodyErr |-> e,
       header |-> [n \in {"Accept"} |-> <<"a/b">>], body |-> "hi"]
        : p \in {"/hello", "/health", "/version"}, e \in BOOLEAN }

\* Requests with bodies and header sets of several sizes.
HttpBodyRequests ==
    { [method |-> "POST", path |-> p, bodyErr |-> e, header |-> h, body |-> b]
        : p \in {"/hello", "/health"}, e \in BOOLEAN,
          h \in { [n \in {"Accept"} |-> <<"a/b">>],
                  [n \in {"Accept", "X-Id"} |-> IF n = "Accept" THEN <<"a/b", "c/d">> ELSE <<>>] },
          b \in {"", "hello!"} }

\* How a downstream handler ends.
HandlerOutcomes ==
    { [panic |-> FALSE, status |-> 200, size |-> 5, errors |-> FALSE, ctx |-> "kept"],
      [panic |-> FALSE, status |-> 200, size |-> -1, errors |-> FALSE, ctx |-> "kept"],
      [panic |-> FALSE, status |-> 500, size |-> 2, errors |-> TRUE, ctx |-> "kept"],
      [panic |-> TRUE, status |-> 200, size |-> -1, errors |-> FALSE, ctx |-> "kept"] }

\* ------------------------------------------------------ otelgrpc: options
RoleServer == "server"
RoleClient == "client"
Roles == {RoleServer, RoleClient}

\* Role.isServer
isServer(role) == role = RoleServer

\* info.FullMethodName of a call to method m of service s.
FullMethodName(info) == "/" \o info.service \o "/" \o info.method

\* Filter predicates over *stats.RPCTagInfo a caller may register.
RpcFilter(f, info) ==
    CASE f = "notHealth" -> FullMethodName(info) # "/grpc.health.v1.Health/Check"
      [] f = "none" -> FALSE

RpcWithFilter(f) == [opt |-> "WithFilter", arg |-> f]
RpcWithMetricAttributes(kvs) == [opt |-> "WithMetricAttributes", arg |-> kvs]
RpcWithTracerProvider(tp) == [opt |-> "WithTracerProvider", arg |-> tp]
RpcWithMeterProvider(mp) == [opt |-> "WithMeterProvider", arg |-> mp]
RpcWithPropagators(propagators) == [opt |-> "WithPropagators", arg |-> propagators]

\* option.apply(cfg)
RpcApply(cfg, o) ==
    CASE o.opt = "WithFilter" ->
            IF o.arg # "nil" THEN [cfg EXCEPT !.Filter = o.arg] ELSE cfg
      [] o.opt = "WithMetricAttributes" -> [cfg EXCEPT !.MetricAttributes = o.arg]
      [] o.opt = "WithTracerProvider" ->
            IF o.arg # "nil" THEN [cfg EXCEPT !.TracerProvider = o.arg] ELSE cfg
      [] o.opt = "WithMeterProvider" ->
            IF o.arg # "nil" THEN [cfg EXCEPT !.MeterProvider = o.arg] ELSE cfg
      [] o.opt = "WithPropagators" ->
            IF ~o.arg.nil THEN [cfg EXCEPT !.Propagators = o.arg] ELSE cfg

RECURSIVE RpcApplyAll(_, _)
RpcApplyAll(cfg, opts) ==
    IF opts = <<>> THEN cfg ELSE RpcApplyAll(RpcApply(cfg, Head(opts)), Tail(opts))

\* newConfig(role, opts...), with a meter that creates instruments as made.
newConfig(role, opts, made) ==
    LET cfg == RpcApplyAll([Filter |-> "nil", SpanAttributes |-> {}, MetricAttributes |-> {},
                            TracerProvider |-> "nil", MeterProvider |-> "nil",
                            Propagators |-> NilPropagator], opts)
        tp == IF cfg.TracerProvider = "nil" THEN GlobalProvider ELSE cfg.TracerProvider
        mp == IF cfg.MeterProvider = "nil" THEN GlobalProvider ELSE cfg.MeterProvider
    IN [Filter |-> cfg.Filter, SpanAttributes |-> cfg.SpanAttributes,
        MetricAttributes |-> cfg.MetricAttributes,
        Propagators |-> IF cfg.Propagators.nil THEN GlobalPropagator ELSE cfg.Propagators,
        TracerProvider |-> tp, MeterProvider |-> mp,
        tracer |-> tp,
        meter |-> mp,
        instruments |-> [i \in RpcInstrumentsOf(role) |->
                            instrumentOrNoop(NewInstrument(made[i]))]]

\* TracingMiddleware(role, opts...)
TracingMiddleware(role, opts, made) ==
    [role |-> role, config |-> newConfig(role, opts, made), opts |-> opts]

\* The state once Tracing(hopts) and TracingMiddleware(role, ropts) have returned,
\* with a meter that creates instruments as made.
Constructed(hopts, role, ropts, made) ==
    /\ created = made
    /\ httpCfg = Tracing(hopts, made)
    /\ mw = TracingMiddleware(role, ropts, made)
    /\ handled = Handled(HttpInstrumentOrder, made) \o Handled(RpcInstrumentOrder(role), made)

\* -------------------------------------------------------- otelgrpc: a call
\* internal.ParseFullMethod: the span name and the rpc.* attributes.
ParseFullMethod(info) ==
    [name |-> info.service \o "/" \o info.method,
     attrs |-> {<<"rpc.service", info.service>>, <<"rpc.method", info.method>>}]

\* grpc codes.Code values.
CodeNumber ==
    [OK |-> 0, Canceled |-> 1, Unknown |-> 2, InvalidArgument |-> 3,
     DeadlineExceeded |-> 4, NotFound |-> 5, AlreadyExists |-> 6,
     PermissionDenied |-> 7, ResourceExhausted |-> 8, FailedPrecondition |-> 9,
     Aborted |-> 10, OutOfRange |-> 11, Unimplemented |-> 12, Internal |-> 13,
     Unavailable |-> 14, DataLoss |-> 15, Unauthenticated |-> 16]

\* status.FromError of a non-nil error: an error that carries no grpc status
\* converts to code Unknown with the error's text.
FromError(err) ==
    IF err.grpc THEN [code |-> err.code, msg |-> err.msg]
    ELSE [code |-> "Unknown", msg |-> err.msg]

\* serverStatus(grpcStatus)
serverStatus(s) ==
    IF s.code \in {"Unknown", "DeadlineExceeded", "Unimplemented", "Internal",
                   "Unavailable", "DataLoss"}
    THEN <<"Error", s.msg>>
    ELSE <<"Unset", "">>

\* semconvutil.NetTransport(network)
NetTransport(network) ==
    <<"net.transport", IF network = "tcp" THEN "ip_tcp" ELSE "other">>

\* A mutant of recordDisabled: the record flag is not consulted.
recordDisabledIgnored(gctx) == FALSE

\* The early return of HandleRPC: the Call Context says not to record.
recordDisabled(gctx) == ~gctx.record

\* A mutant of EndRPCSpan: the span is not ended.
EndRPCSpanLeaked(span, st, attr) ==
    SetAttributes(SetStatus(span, st[1], st[2]), {attr})

\* The End case of HandleRPC on the span: status, status-code attribute, End.
EndRPCSpan(span, st, attr) ==
    EndSpan(SetAttributes(SetStatus(span, st[1], st[2]), {attr}))

IdleCall ==
    [pc |-> "idle", info |-> <<>>, gctx |-> <<>>, injected |-> FALSE,
     given |-> ContextWith(EmptyCarrier), ctx |-> ContextWith(EmptyCarrier),
     inFlight |-> {},
     inSeen |-> 0, outSeen |-> 0, endSeen |-> 0, endError |-> <<>>,
     crashed |-> FALSE]

\* extract(ctx, propagators): the propagators read the incoming metadata of ctx.
extract(ctx, propagators) == Extract(propagators, ctx, ctx.incoming)

\* inject(ctx, propagators): the propagators write into the outgoing metadata
\* of ctx.
inject(ctx, propagators) ==
    [ctx EXCEPT !.outgoing = Inject(propagators, ctx, ctx.outgoing)]

\* A mutant of spanKindOf: every span is a server span.
spanKindAlwaysServer(role) == "server"

\* TagRPC: the span kind of the role.
spanKindOf(role) == IF isServer(role) THEN "server" ELSE "client"

\* middleware.TagRPC(ctx, info); given is the context the runtime passed, ctx
\* the one returned.
TagRPC(c, ctx, info) ==
    /\ calls[c].pc = "idle"
    /\ LET extracted == extract(ctx, mw.config.Propagators)
           spanKind == spanKindOf(mw.role)
           parsed == ParseFullMethod(info)
           attrs == parsed.attrs \cup {<<"rpc.system", "grpc">>}
           span == WithParent(StartSpan(mw.config.tracer, parsed.name, spanKind,
                                        attrs \cup mw.config.SpanAttributes),
                              extracted.sc, NewIDs(RpcOwner(c)))
           started == [extracted EXCEPT !.sc = span.sc]
           gctx == [messagesReceived |-> 0, messagesSent |-> 0,
                    metricAttrs |-> attrs \cup mw.config.MetricAttributes,
                    record |-> IF mw.config.Filter # "nil"
                               THEN RpcFilter(mw.config.Filter, info)
                               ELSE TRUE]
       IN /\ spans' = [spans EXCEPT ![RpcOwner(c)] = Append(@, span)]
          /\ calls' = [calls EXCEPT ![c] =
                          [@ EXCEPT !.pc = "tagged", !.info = info, !.gctx = gctx,
                                    !.given = ctx,
                                    !.ctx = IF isServer(mw.role) THEN started
                                            ELSE inject(started, mw.config.Propagators),
                                    !.injected = ~isServer(mw.role)]]
    /\ UNCHANGED <<processVars, httpCfg, reqs, mw, recorded>>

\* trace.SpanFromContext(ctx) for a context that carries no span: a span that
\* records nothing; what the hook does to it is discarded.
NonRecordingSpan ==
    [provider |-> "none", name |-> "", kind |-> "", attrs |-> {}, events |-> <<>>,
     status |-> "Unset", msg |-> "", ends |-> 0,
     sc |-> NoSpanContext, parent |-> NoSpanContext]

\* The body of middleware.HandleRPC(ctx, rs). span is trace.SpanFromContext(ctx),
\* hasGctx says whether ctx carries a Call Context (gctx != nil), o owns the
\* samples. The result is <<span, recorded, ok>> after the hook, ok being FALSE
\* when the hook panicked on a nil instrument.
HandleRPCBody(span, hasGctx, gctx, o, rs) ==
    LET metricAttrs == IF hasGctx THEN gctx.metricAttrs ELSE {}
        inst(suffix) == "rpc." \o mw.role \o suffix
        RecordOn(samples) == RecordAll(mw.config.instruments, recorded, samples)
    IN IF hasGctx /\ recordDisabled(gctx) THEN <<span, recorded, TRUE>>
       ELSE CASE rs.type = "InPayload" ->
                   LET done == IF hasGctx
                               THEN RecordOn(<< [inst |-> inst(".request.size"),
                                                 sample |-> [owner |-> o, value |-> rs.Length,
                                                             attrs |-> metricAttrs]] >>)
                               ELSE RecordOn(<<>>)
                   IN <<span, done.rec, done.ok>>
              [] rs.type = "OutPayload" ->
                   LET done == IF hasGctx
                               THEN RecordOn(<< [inst |-> inst(".response.size"),
                                                 sample |-> [owner |-> o, value |-> rs.Length,
                                                             attrs |-> metricAttrs]] >>)
                               ELSE RecordOn(<<>>)
                   IN <<span, done.rec, done.ok>>
              [] rs.type = "OutHeader" ->
                   <<IF rs.peer # "none"
                     THEN SetAttributes(span, {NetTransport(rs.peer)})
                     ELSE span,
                     recorded, TRUE>>
              [] rs.type = "End" ->
                   LET s == IF ~rs.Error.nil THEN FromError(rs.Error)
                            ELSE [code |-> "OK", msg |-> ""]
                       st == IF rs.Error.nil THEN <<"Unset", "">>
                             ELSE IF isServer(mw.role) THEN serverStatus(s)
                             ELSE <<"Error", s.msg>>
                       rpcStatusAttr == <<"rpc.grpc.status_code", CodeNumber[s.code]>>
                       endAttrs == metricAttrs \cup {rpcStatusAttr}
                       duration == << [inst |-> inst(".duration"),
                                       sample |-> [owner |-> o, attrs |-> endAttrs]] >>
                       perRPC == << [inst |-> inst(".requests_per_rpc"),
                                     sample |-> [owner |-> o, value |-> gctx.messagesReceived,
                                                 attrs |-> endAttrs]],
                                    [inst |-> inst(".responses_per_rpc"),
                                     sample |-> [owner |-> o, value |-> gctx.messagesSent,
                                                 attrs |-> endAttrs]] >>
                       done == RecordOn(IF hasGctx THEN duration \o perRPC ELSE duration)
                   IN <<EndRPCSpan(span, st, rpcStatusAttr), done.rec, done.ok>>
              [] OTHER -> <<span, recorded, TRUE>>

\* A mutant of CallContextOf: the middleware keeps one Call Context, that of the
\* first call tagged.
CallContextShared(c) == IF calls[1].pc # "idle" THEN calls[1].gctx ELSE calls[c].gctx

\* ctx.Value(gRPCContextKey{}): the Call Context carried by the context TagRPC
\* returned for call c.
CallContextOf(c) == calls[c].gctx

\* A mutant of callContextAfter: End appends the status code to the list of the
\* Call Context itself.
callContextAppended(gctx, rs) ==
    IF rs.type = "End"
    THEN [gctx EXCEPT !.metricAttrs =
             @ \cup {<<"rpc.grpc.status_code",
                       CodeNumber[IF rs.Error.nil THEN "OK" ELSE FromError(rs.Error).code]>>}]
    ELSE gctx

\* The Call Context after a hook: the hook appends to a copy of metricAttrs it
\* made on entry and writes no field of the Call Context.
callContextAfter(gctx, rs) == gctx

\* The effect of middleware.HandleRPC(ctx, rs) on the span of the call and on
\* the instruments, for the context TagRPC returned for call c.
HandleRPCEffect(c, rs) ==
    LET o == RpcOwner(c)
    IN HandleRPCBody(spans[o][Len(spans[o])], TRUE, CallContextOf(c), o, rs)

\* middleware.HandleRPC(ctx, rs), on the context TagRPC returned for call c. The
\* runtime delivers the events of a call between its tag and its End, and End once.
HandleRPC(c, rs) ==
    /\ calls[c].pc = "tagged"
    /\ rs.type = "InPayload" => calls[c].inSeen < MaxMsgs
    /\ rs.type = "OutPayload" => calls[c].outSeen < MaxMsgs
    /\ LET eff == HandleRPCEffect(c, rs)
           o == RpcOwner(c)
       IN /\ spans' = [spans EXCEPT ![o][Len(spans[o])] = eff[1]]
          /\ recorded' = eff[2]
    /\ calls' = [calls EXCEPT ![c] =
                    [@ EXCEPT !.pc = IF rs.type = "End" THEN "ended" ELSE @,
                              !.inSeen = IF rs.type = "InPayload" THEN @ + 1 ELSE @,
                              !.outSeen = IF rs.type = "OutPayload" THEN @ + 1 ELSE @,
                              !.endSeen = IF rs.type = "End" THEN @ + 1 ELSE @,
                              !.endError = IF rs.type = "End" THEN rs.Error ELSE @,
                              !.gctx = callContextAfter(@, rs),
                              !.crashed = @ \/ ~HandleRPCEffect(c, rs)[3]]]
    /\ UNCHANGED <<processVars, httpCfg, reqs, mw>>

\* middleware.HandleRPC(ctx, rs) from its entry to the switch: the hook reads the
\* Call Context and copies its attribute list; hooks of one call may run at once,
\* here one per event type.
HandleRPCEnter(c, rs) ==
    /\ calls[c].pc = "tagged"
    /\ \A f \in calls[c].inFlight : f.rs.type # rs.type
    /\ rs.type = "InPayload" => calls[c].inSeen < MaxMsgs
    /\ rs.type = "OutPayload" => calls[c].outSeen < MaxMsgs
    /\ rs.type = "End" => calls[c].endSeen = 0
    /\ calls' = [calls EXCEPT ![c] =
                    [@ EXCEPT !.inFlight = @ \cup {[rs |-> rs,
                                                   metricAttrs |-> CallContextOf(c).metricAttrs]},
                              !.inSeen = IF rs.type = "InPayload" THEN @ + 1 ELSE @,
                              !.outSeen = IF rs.type = "OutPayload" THEN @ + 1 ELSE @,
                              !.endSeen = IF rs.type = "End" THEN @ + 1 ELSE @,
                              !.endError = IF rs.type = "End" THEN rs.Error ELSE @]]
    /\ UNCHANGED <<processVars, httpCfg, reqs, mw, spans, recorded>>

\* middleware.HandleRPC(ctx, rs) from the switch to its return, for the hook
\* that entered as f.
HandleRPCLeave(c, f) ==
    /\ f \in calls[c].inFlight
    /\ LET o == RpcOwner(c)
           gctx == [CallContextOf(c) EXCEPT !.metricAttrs = f.metricAttrs]
           eff == HandleRPCBody(spans[o][Len(spans[o])], TRUE, gctx, o, f.rs)
       IN /\ spans' = [spans EXCEPT ![o][Len(spans[o])] = eff[1]]
          /\ recorded' = eff[2]
          /\ calls' = [calls EXCEPT ![c] =
                          [@ EXCEPT !.inFlight = @ \ {f},
                                    !.pc = IF f.rs.type = "End" THEN "ended" ELSE @,
                                    !.gctx = callContextAfter(@, f.rs),
                                    !.crashed = @ \/ ~eff[3]]]
    /\ UNCHANGED <<processVars, httpCfg, reqs, mw>>

\* Owner of the samples of hooks that ran on a context TagRPC did not return.
UntaggedOwner == <<"untagged", 0>>

\* middleware.HandleRPC(ctx, rs) on a context that carries neither a Call Context
\* nor a span, as context.Background() does.
HandleRPCUntagged(rs) ==
    /\ rs.type = "End" =>
           \A i \in RpcInstrumentsOf(mw.role) : SamplesOf(i, UntaggedOwner) < MaxUntagged
    /\ recorded' = HandleRPCBody(NonRecordingSpan, FALSE, <<>>, UntaggedOwner, rs)[2]
    /\ UNCHANGED <<processVars, httpCfg, reqs, mw, calls, spans>>

\* Option lists the stats handler is constructed with.
RpcOptionLists == { <<>>, <<RpcWithFilter("notHealth")>>, <<RpcWithFilter("nil")>> }

\* Calls the runtime tags.
RpcTagInfos ==
    { [service |-> "api.HelloService", method |-> "SayHello"],
      [service |-> "grpc.health.v1.Health", method |-> "Check"] }

\* rs.Error of an End event: nil, an error carrying a grpc status, or another error.
NilError == [nil |-> TRUE, grpc |-> FALSE, code |-> "", msg |-> ""]
GrpcError(code, msg) == [nil |-> FALSE, grpc |-> TRUE, code |-> code, msg |-> msg]
PlainError(msg) == [nil |-> FALSE, grpc |-> FALSE, code |-> "", msg |-> msg]

\* Events the runtime delivers for a tagged call.
RpcEvents ==
    { [type |-> "Begin"], [type |-> "InHeader"], [type |-> "OutTrailer"],
      [type |-> "InPayload", Length |-> 7], [type |-> "OutPayload", Length |-> 7],
      [type |-> "OutHeader", peer |-> "tcp"], [type |-> "OutHeader", peer |-> "none"],
      [type |-> "End", Error |-> NilError],
      [type |-> "End", Error |-> GrpcError("Internal", "boom")],
      [type |-> "End", Error |-> GrpcError("NotFound", "missing")] }

\* ---------------------------------------------------------- InitTelemetry
\* An error is the sequence of the messages it carries, nil the empty one.
\* errors.Join drops nil errors and is nil when none is left.
errorsJoin(a, b) == a \o b

\* The cleanup functions InitTelemetry registers, in registration order.
CleanupOrder == <<"shutdownTracer", "shutdownMeter", "shutdownLogger">>
Cleanups == Range(CleanupOrder)
\* What the cleanup functions return when invoked.
CleanupOutcomes == [Cleanups -> {<<>>, <<"export failed">>}]

\* The process before InitTelemetry: the OTel globals are the no-op defaults.
NotInitialized ==
    [pc |-> "main", shutdownFuncs |-> <<>>, invoked |-> <<>>, shutdown |-> "none",
     err |-> <<>>, results |-> <<>>, flushed |-> <<>>, panicked |-> FALSE,
     globals |-> [TracerProvider |-> "noop", MeterProvider |-> "noop",
                  LoggerProvider |-> "noop", TextMapPropagator |-> Composite(<<>>),
                  Logger |-> "noop"]]

\* for _, fn := range shutdownFuncs { err = errors.Join(err, fn(ctx)) }
RECURSIVE RunCleanups(_, _, _)
RunCleanups(fns, ctx, outs) ==
    IF fns = <<>> THEN <<>>
    ELSE <<[fn |-> Head(fns), ctx |-> ctx, err |-> outs[Head(fns)]]>>
            \o RunCleanups(Tail(fns), ctx, outs)

RECURSIVE JoinAll(_)
JoinAll(invocations) ==
    IF invocations = <<>> THEN <<>>
    ELSE errorsJoin(JoinAll(SubSeq(invocations, 1, Len(invocations) - 1)),
                    invocations[Len(invocations)].err)

\* A mutant of finalShutdown: it leaves shutdownFuncs as it was.
finalShutdownKeepingList(t, ctx, outs) ==
    LET ran == RunCleanups(t.shutdownFuncs, ctx, outs)
    IN [t |-> [t EXCEPT !.invoked = t.invoked \o ran], err |-> JoinAll(ran)]

\* finalShutdown(ctx): the frame afterwards and the error returned.
finalShutdown(t, ctx, outs) ==
    LET ran == RunCleanups(t.shutdownFuncs, ctx, outs)
    IN [t |-> [t EXCEPT !.invoked = t.invoked \o ran, !.shutdownFuncs = <<>>],
        err |-> JoinAll(ran)]

\* sendAllBeforeShutdown(ctx): ForceFlush on each global provider that is an SDK
\* provider, then finalShutdown.
sendAllBeforeShutdown(t, ctx, outs) ==
    LET sdk(g) == IF t.globals[g] = GlobalProvider THEN <<g>> ELSE <<>>
        flushed == sdk("TracerProvider") \o sdk("MeterProvider") \o sdk("LoggerProvider")
    IN finalShutdown([t EXCEPT !.flushed = t.flushed \o flushed], ctx, outs)

\* handleErr(inErr): err = errors.Join(inErr, finalShutdown(ctx))
handleErr(t, ctx, inErr, outs) ==
    LET r == finalShutdown(t, ctx, outs)
    IN [r.t EXCEPT !.err = errorsJoin(inErr, r.err)]

\* The steps of InitTelemetry that can fail, in order.
InitSteps == <<"initConn", "resource.New", "initTracerProvider", "initMeterProvider",
               "initLoggerProvider">>
FailurePoints == Range(InitSteps) \cup {"none"}

\* InitTelemetry(ctx, serviceName, otelUrl), where failAt is the step that
\* returns an error.
InitTelemetryFrame(t0, ctx, failAt, outs) ==
    LET returned(t, fn) == [t EXCEPT !.pc = "initialized", !.shutdown = fn]
        failed(t, fn, msg) == returned(handleErr(t, ctx, <<msg>>, outs), fn)
        propagated == [t0 EXCEPT !.globals.TextMapPropagator = initPropagator]
        traced == [propagated EXCEPT !.globals.TracerProvider = GlobalProvider,
                                     !.shutdownFuncs = Append(@, "shutdownTracer")]
        metered == [traced EXCEPT !.globals.MeterProvider = GlobalProvider,
                                  !.shutdownFuncs = Append(@, "shutdownMeter")]
        logged == [metered EXCEPT !.globals.LoggerProvider = GlobalProvider,
                                  !.shutdownFuncs = Append(@, "shutdownLogger")]
    IN CASE failAt = "initConn" -> failed(t0, "finalShutdown", "init conn")
         [] failAt = "resource.New" -> failed(propagated, "finalShutdown", "resource")
         [] failAt = "initTracerProvider" -> failed(propagated, "nil", "init trace exporter")
         [] failAt = "initMeterProvider" ->
                failed(traced, "finalShutdown", "create metrics exporter")
         [] failAt = "initLoggerProvider" ->
                failed(metered, "finalShutdown", "init logger exporter")
         [] OTHER -> returned([logged EXCEPT !.globals.Logger = "otelzap"],
                              "sendAllBeforeShutdown")

InitTelemetry(ctx, failAt, outs) ==
    /\ telemetry.pc = "main"
    /\ telemetry' = InitTelemetryFrame(telemetry, ctx, failAt, outs)
    /\ UNCHANGED <<httpCfg, reqs, mw, calls, spans, recorded, logs, helperCalls, handled,
                   created>>

\* The application calls the shutdown function InitTelemetry returned; calling
\* the nil function panics.
Shutdown(ctx, outs) ==
    /\ telemetry.pc = "initialized"
    /\ ~telemetry.panicked
    /\ Len(telemetry.results) < MaxShutdowns
    /\ telemetry' =
          IF telemetry.shutdown = "nil" THEN [telemetry EXCEPT !.panicked = TRUE]
          ELSE LET r == IF telemetry.shutdown = "finalShutdown"
                        THEN finalShutdown(telemetry, ctx, outs)
                        ELSE sendAllBeforeShutdown(telemetry, ctx, outs)
               IN [r.t EXCEPT !.results =
                       Append(@, [ctx |-> ctx, err |-> r.err,
                                  from |-> Len(telemetry.invoked) + 1,
                                  to |-> Len(r.t.invoked)])]
    /\ UNCHANGED <<httpCfg, reqs, mw, calls, spans, recorded, logs, helperCalls, handled,
                   created>>

\* The contexts InitTelemetry and the shutdown function are called with.
ProcessContexts == {"background", "deadline"}

\* The process once InitTelemetry has returned without an error.
Initialized ==
    InitTelemetryFrame(NotInitialized, "background", "none", [fn \in Cleanups |-> <<>>])

\* A process set up by InitTelemetry that has served nothing yet.
NoTelemetry ==
    /\ telemetry = Initialized
    /\ spans = [o \in Owners |-> <<>>]
    /\ recorded = [i \in Instruments |-> EmptyBag]
    /\ logs = <<>>
    /\ helperCalls = <<>>

RpcInit ==
    /\ \E role \in Roles, opts \in RpcOptionLists : Constructed(<<>>, role, opts, AllCreated)
    /\ calls = [c \in 1..MaxCalls |-> IdleCall]
    /\ reqs = [r \in 1..MaxReqs |-> IdleReq]
    /\ NoTelemetry

RpcNext ==
    \E c \in 1..MaxCalls :
        \/ \E info \in RpcTagInfos : TagRPC(c, ContextWith(EmptyCarrier), info)
        \/ \E rs \in RpcEvents : HandleRPC(c, rs)

RpcSpec == RpcInit /\ [][RpcNext]_vars

\* The stats handler with, besides the runtime's events, hooks invoked on a
\* context without Call Context.
RpcUntaggedNext ==
    \/ RpcNext
    \/ \E rs \in RpcEvents : HandleRPCUntagged(rs)

RpcUntaggedSpec == RpcInit /\ [][RpcUntaggedNext]_vars

\* Terminal errors of every grpc code, for the End-of-call classification.
ErrorCodes == DOMAIN CodeNumber \ {"OK"}
EndErrors ==
    {NilError, PlainError("io")} \cup {GrpcError(k, "boom") : k \in ErrorCodes}

RpcStatusEvents ==
    { [type |-> "Begin"], [type |-> "OutHeader", peer |-> "tcp"] }
        \cup { [type |-> "End", Error |-> e] : e \in EndErrors }

RpcStatusNext ==
    \E c \in 1..MaxCalls :
        \/ \E info \in RpcTagInfos : TagRPC(c, ContextWith(EmptyCarrier), info)
        \/ \E rs \in RpcStatusEvents : HandleRPC(c, rs)

RpcStatusSpec == RpcInit /\ [][RpcStatusNext]_vars

HttpInit ==
    /\ \E opts \in HttpOptionLists : Constructed(opts, RoleServer, <<>>, AllCreated)
    /\ reqs = [r \in 1..MaxReqs |-> IdleReq]
    /\ calls = [c \in 1..MaxCalls |-> IdleCall]
    /\ NoTelemetry

HttpNext ==
    \E r \in 1..MaxReqs :
        \/ \E req \in HttpRequests : TracingEnter(r, req)
        \/ \E out \in HandlerOutcomes : CNext(r, out)
        \/ TracingReturn(r)
        \/ TracingUnwind(r)

HttpSpec == HttpInit /\ [][HttpNext]_vars

\* The middleware with one filter, serving requests of several sizes to a
\* handler that returns.
HttpBodyInit ==
    /\ Constructed(<<WithFilter(<<"notHealth">>)>>, RoleServer, <<>>, AllCreated)
    /\ reqs = [r \in 1..MaxReqs |-> IdleReq]
    /\ calls = [c \in 1..MaxCalls |-> IdleCall]
    /\ NoTelemetry

HttpBodyNext ==
    \E r \in 1..MaxReqs :
        \/ \E req \in HttpBodyRequests : TracingEnter(r, req)
        \/ \E out \in {o \in HandlerOutcomes : ~o.panic /\ o.size > 0} : CNext(r, out)
        \/ TracingReturn(r)

HttpBodySpec == HttpBodyInit /\ [][HttpBodyNext]_vars

\* ------------------------------------------------------------ construction
\* How the meter behaves at construction: it creates every instrument, fails on
\* one of them, or fails on all.
CreationScenarios ==
    {AllCreated}
      \cup {[AllCreated EXCEPT ![i] = o] : i \in Instruments, o \in Outcomes \ {"ok"}}
      \cup {[i \in Instruments |-> o] : o \in Outcomes \ {"ok"}}

\* The providers handed to WithTracerProvider and WithMeterProvider; "nil" is
\* the nil provider.
ProviderChoices ==
    { [tp |-> "nil", mp |-> "nil"], [tp |-> "sdk", mp |-> "sdk"], [tp |-> "sdk", mp |-> "nil"] }

SetupInit ==
    /\ \E p \in ProviderChoices, role \in Roles, made \in CreationScenarios :
          Constructed(<<WithTracerProvider(p.tp), WithMeterProvider(p.mp)>>, role,
                      <<RpcWithTracerProvider(p.tp), RpcWithMeterProvider(p.mp)>>, made)
    /\ reqs = [r \in 1..MaxReqs |-> IdleReq]
    /\ calls = [c \in 1..MaxCalls |-> IdleCall]
    /\ NoTelemetry

\* One request and one call served by the constructed middlewares.
SetupRequest ==
    [method |-> "GET", path |-> "/hello", bodyErr |-> FALSE,
     header |-> [n \in {"Accept"} |-> <<"a/b">>], body |-> "hi"]
SetupOutcome ==
    [panic |-> FALSE, status |-> 200, size |-> 5, errors |-> FALSE, ctx |-> "kept"]
SetupTagInfo == [service |-> "api.HelloService", method |-> "SayHello"]
SetupEvents ==
    { [type |-> "InPayload", Length |-> 7], [type |-> "OutPayload", Length |-> 7],
      [type |-> "End", Error |-> NilError] }

SetupNext ==
    \/ TracingEnter(1, SetupRequest)
    \/ CNext(1, SetupOutcome)
    \/ TracingReturn(1)
    \/ TagRPC(1, ContextWith(EmptyCarrier), SetupTagInfo)
    \/ \E rs \in SetupEvents : HandleRPC(1, rs)

SetupSpec == SetupInit /\ [][SetupNext]_vars

\* ------------------------------------------------------- span naming
\* The middleware with and without a span name formatter, serving requests of
\* two methods to routed and unrouted paths.
HttpNameOptionLists ==
    { <<>>, <<WithSpanNameFormatter("methodPath")>>, <<WithSpanNameFormatter("empty")>> }

HttpNameRequests ==
    { [method |-> mt, path |-> p, bodyErr |-> FALSE,
       header |-> [n \in {"Accept"} |-> <<"a/b">>], body |-> "hi"]
        : mt \in {"GET", "POST"}, p \in {"/hello", "/version"} }

HttpNameInit ==
    /\ \E opts \in HttpNameOptionLists : Constructed(opts, RoleServer, <<>>, AllCreated)
    /\ reqs = [r \in 1..MaxReqs |-> IdleReq]
    /\ calls = [c \in 1..MaxCalls |-> IdleCall]
    /\ NoTelemetry

HttpNameNext ==
    \E r \in 1..MaxReqs :
        \/ \E req \in HttpNameRequests : TracingEnter(r, req)
        \/ CNext(r, SetupOutcome)
        \/ TracingReturn(r)

HttpNameSpec == HttpNameInit /\ [][HttpNameNext]_vars

\* --------------------------------------------------- kgsotel: the helper
\* A context is a record whose span field is the index, among the spans of the
\* application, of the span it carries; 0 when it carries none.
Background == [span |-> 0]

\* A mutant of SpanFromContext: the span the application started last, whatever
\* the context carries.
SpanFromContextLatest(ctx) == Len(spans[AppOwner])

\* trace.SpanFromContext(ctx); index 0 stands for the non-recording span.
SpanFromContext(ctx) == ctx.span

\* span.SpanContext(): the identifiers of a span, all zero for the
\* non-recording one.
SpanContext(i) ==
    IF i = 0
    THEN [TraceID |-> "00000000000000000000000000000000", SpanID |-> "0000000000000000"]
    ELSE [TraceID |-> "trace" \o ToString(i), SpanID |-> "span" \o ToString(i)]

\* getCaller(skip): file:line and function of the application code that called.
getCaller == [caller |-> "main.go:42", funcName |-> "main.run"]

\* Field values, and fmt.Sprintf("%v", value).
IntValue(n) == [kind |-> "int", int |-> n, str |-> ""]
StringValue(t) == [kind |-> "string", int |-> 0, str |-> t]
Sprintf(v) == IF v.kind = "int" THEN ToString(v.int) ELSE v.str

\* NewFiled(key, value)
NewFiled(key, value) == [Key |-> key, Value |-> value]

\* What a list of attributes leaves on a span: per key, the last value given.
AttributeSet(attributes) ==
    {<<attributes[i].Key, attributes[i].Value>> : i \in
        {j \in 1..Len(attributes) :
            \A k \in (j + 1)..Len(attributes) : attributes[k].Key # attributes[j].Key}}

\* The span at index i of the application, or the non-recording span.
AppSpan(i) == IF i = 0 THEN NonRecordingSpan ELSE spans[AppOwner][i]

\* StartTrace(ctx): a span named by the calling function, with its identifiers
\* and the call site as attributes.
StartTrace ==
    /\ Len(spans[AppOwner]) < MaxTraces
    /\ LET sc == SpanContext(Len(spans[AppOwner]) + 1)
           attributes == << [Key |-> "traceID", Value |-> sc.TraceID],
                            [Key |-> "spanID", Value |-> sc.SpanID],
                            [Key |-> "caller", Value |-> getCaller.caller],
                            [Key |-> "funcName", Value |-> getCaller.funcName] >>
       IN spans' = [spans EXCEPT ![AppOwner] =
                       Append(@, SetAttributes(StartSpan(GlobalProvider, getCaller.funcName,
                                                         "internal", {}),
                                               AttributeSet(attributes)))]
    /\ UNCHANGED <<httpCfg, reqs, mw, calls, recorded, processVars>>

\* setSpanAttrsAndZapFields(ctx, fields...): the span resolved from ctx after
\* span.SetAttributes(attributes...), and the zap fields.
setSpanAttrsAndZapFields(ctx, fields) ==
    LET span == SpanFromContext(ctx)
        sc == SpanContext(span)
        fixed == << [Key |-> "traceID", Value |-> sc.TraceID],
                    [Key |-> "spanID", Value |-> sc.SpanID],
                    [Key |-> "caller", Value |-> getCaller.caller],
                    [Key |-> "funcName", Value |-> getCaller.funcName] >>
        attributes == fixed \o [i \in 1..Len(fields) |->
                                   [Key |-> fields[i].Key, Value |-> Sprintf(fields[i].Value)]]
        zapFields == [i \in 1..Len(fixed) |->
                         [Key |-> fixed[i].Key, Value |-> StringValue(fixed[i].Value)]]
                     \o fields
    IN [ref |-> span,
        span |-> SetAttributes(AppSpan(span), AttributeSet(attributes)),
        zapFields |-> zapFields]

\* What a helper call leaves behind: the span it resolved, unless that is the
\* non-recording one, and the record zap.L() emitted.
Emit(level, ctx, message, fields, ref, span, zapFields) ==
    /\ Len(helperCalls) < MaxLogs
    /\ spans' = IF ref = 0 THEN spans ELSE [spans EXCEPT ![AppOwner][ref] = span]
    /\ logs' = Append(logs, [level |-> level, message |-> message, fields |-> zapFields])
    /\ helperCalls' = Append(helperCalls, [level |-> level, ctx |-> ctx,
                                           message |-> message, fields |-> fields])
    /\ UNCHANGED <<httpCfg, reqs, mw, calls, recorded, handled, created, telemetry>>

\* A mutant of Info: it sets the span status as Warn and Error do.
InfoSettingStatus(ctx, message, fields) ==
    LET r == setSpanAttrsAndZapFields(ctx, fields)
    IN Emit("info", ctx, message, fields, r.ref,
            SetStatus(AddEvent(r.span, message), "Error", message), r.zapFields)

\* Info(ctx, message, fields...)
Info(ctx, message, fields) ==
    LET r == setSpanAttrsAndZapFields(ctx, fields)
    IN Emit("info", ctx, message, fields, r.ref, AddEvent(r.span, message), r.zapFields)

\* Warn(ctx, message, fields...)
Warn(ctx, message, fields) ==
    LET r == setSpanAttrsAndZapFields(ctx, fields)
    IN Emit("warn", ctx, message, fields, r.ref,
            SetStatus(AddEvent(r.span, message), "Error", message), r.zapFields)

\* Error(ctx, message, fields...)
Error(ctx, message, fields) ==
    LET r == setSpanAttrsAndZapFields(ctx, fields)
    IN Emit("error", ctx, message, fields, r.ref,
            SetStatus(AddEvent(r.span, message), "Error", message), r.zapFields)

\* Messages and field lists the application logs with.
Messages == {"started", "failed"}
FieldLists ==
    { <<>>,
      <<NewFiled("user", StringValue("amy")), NewFiled("attempt", IntValue(2))>>,
      <<NewFiled("traceID", StringValue("upstream-7"))>> }

\* The message and fields of the calls the application makes.
HelperInputs ==
    {[message |-> "started", fields |-> f] : f \in FieldLists}
        \cup {[message |-> "failed", fields |-> <<>>]}

\* The contexts the application holds: the background context and the ones
\* StartTrace returned.
Contexts == {[span |-> i] : i \in 0..Len(spans[AppOwner])}

HelperInit ==
    /\ Constructed(<<>>, RoleServer, <<>>, AllCreated)
    /\ reqs = [r \in 1..MaxReqs |-> IdleReq]
    /\ calls = [c \in 1..MaxCalls |-> IdleCall]
    /\ NoTelemetry

HelperNext ==
    \/ StartTrace
    \/ \E ctx \in Contexts, in \in HelperInputs :
          \/ Info(ctx, in.message, in.fields)
          \/ Warn(ctx, in.message, in.fields)
          \/ Error(ctx, in.message, in.fields)

HelperSpec == HelperInit /\ [][HelperNext]_vars

\* ------------------------------------------------------------ propagation
\* The span context of a caller in another process.
RemoteParent ==
    [TraceID |-> "0af7651916cd43dd8448eb211c80319c", SpanID |-> "b7ad6b7169203331",
     Sampled |-> TRUE, Remote |-> TRUE]

\* Incoming metadata that carries the caller's trace context, and metadata that
\* carries none or a malformed one.
WellFormedCarriers ==
    { [k \in {"traceparent"} |-> <<FormatTraceParent(RemoteParent)>>],
      [k \in {"traceparent", "baggage"} |->
          IF k = "traceparent" THEN <<FormatTraceParent(RemoteParent)>> ELSE <<"user=amy">>] }
MalformedCarriers ==
    { EmptyCarrier,
      [k \in {"traceparent"} |-> <<>>],
      [k \in {"traceparent"} |-> <<"garbage">>],
      [k \in {"traceparent"} |-> <<"00-0af7651916cd43dd8448eb211c80319c-b7ad6b71-01">>],
      [k \in {"traceparent"} |-> <<"00-0AF7651916CD43DD8448EB211C80319C-b7ad6b7169203331-01">>],
      [k \in {"traceparent"} |-> <<"00-" \o ZeroTraceID \o "-b7ad6b7169203331-01">>],
      [k \in {"baggage"} |-> <<"no member">>] }
IncomingContexts == {ContextWith(md) : md \in WellFormedCarriers \cup MalformedCarriers}

RpcPropagationOptionLists ==
    { <<>>, <<RpcWithPropagators(NilPropagator)>>, <<RpcWithFilter("notHealth")>> }

RpcPropagationInit ==
    /\ \E role \in Roles, opts \in RpcPropagationOptionLists :
          Constructed(<<>>, role, opts, AllCreated)
    /\ calls = [c \in 1..MaxCalls |-> IdleCall]
    /\ reqs = [r \in 1..MaxReqs |-> IdleReq]
    /\ NoTelemetry

RpcPropagationNext ==
    \E c \in 1..MaxCalls :
        \/ \E ctx \in IncomingContexts, info \in RpcTagInfos : TagRPC(c, ctx, info)
        \/ \E rs \in { [type |-> "InPayload", Length |-> 7],
                       [type |-> "End", Error |-> NilError] } : HandleRPC(c, rs)

RpcPropagationSpec == RpcPropagationInit /\ [][RpcPropagationNext]_vars

\* ------------------------------------------------------- concurrent calls
\* Several calls in progress through one stats handler, the hooks of each call
\* and of different calls interleaving.
RpcConcurrentSetups ==
    { [role |-> RoleServer, opts |-> <<>>],
      [role |-> RoleClient, opts |-> <<RpcWithFilter("notHealth")>>] }

RpcConcurrentInit ==
    /\ \E m \in RpcConcurrentSetups : Constructed(<<>>, m.role, m.opts, AllCreated)
    /\ calls = [c \in 1..MaxConcurrent |-> IdleCall]
    /\ reqs = [r \in 1..MaxReqs |-> IdleReq]
    /\ NoTelemetry

RpcConcurrentEvents ==
    { [type |-> "InPayload", Length |-> 7],
      [type |-> "End", Error |-> GrpcError("NotFound", "missing")] }

RpcConcurrentNext ==
    \E c \in 1..MaxConcurrent :
        \/ \E info \in RpcTagInfos : TagRPC(c, ContextWith(EmptyCarrier), info)
        \/ \E rs \in RpcConcurrentEvents : HandleRPCEnter(c, rs)
        \/ \E f \in calls[c].inFlight : HandleRPCLeave(c, f)

RpcConcurrentSpec == RpcConcurrentInit /\ [][RpcConcurrentNext]_vars

\* ----------------------------------------------------------------- options
\* The options the application may pass, one for each middleware.
OptionPairs ==
    { <<WithFilter(<<"notHealth">>), RpcWithFilter("notHealth")>>,
      <<WithFilter(<<"notVersion", "notHealth">>), RpcWithFilter("none")>>,
      <<WithFilter(<<>>), RpcWithFilter("nil")>>,
      <<WithTracerProvider("sdk"), RpcWithTracerProvider("sdk")>>,
      <<WithTracerProvider("nil"), RpcWithTracerProvider("nil")>>,
      <<WithMeterProvider("sdk"), RpcWithMeterProvider("sdk")>>,
      <<WithMeterProvider("nil"), RpcWithMeterProvider("nil")>>,
      <<WithPropagators(Composite(<<"baggage">>)), RpcWithPropagators(Composite(<<"baggage">>))>>,
      <<WithPropagators(NilPropagator), RpcWithPropagators(NilPropagator)>> }

OptionsInit ==
    /\ \E role \in Roles : Constructed(<<>>, role, <<>>, AllCreated)
    /\ reqs = [r \in 1..MaxReqs |-> IdleReq]
    /\ calls = [c \in 1..MaxCalls |-> IdleCall]
    /\ NoTelemetry

\* The application constructs both middlewares again, each with one more option
\* than before.
ConstructWith(ho, ro) ==
    /\ Len(httpCfg.opts) < MaxOpts
    /\ httpCfg' = Tracing(Append(httpCfg.opts, ho), created)
    /\ mw' = TracingMiddleware(mw.role, Append(mw.opts, ro), created)
    /\ UNCHANGED <<processVars, reqs, calls, spans, recorded>>

OptionsNext == \E p \in OptionPairs : ConstructWith(p[1], p[2])

OptionsSpec == OptionsInit /\ [][OptionsNext]_vars

\* ---------------------------------------------------- telemetry lifecycle
TelemetryInit ==
    /\ Constructed(<<>>, RoleServer, <<>>, AllCreated)
    /\ reqs = [r \in 1..MaxReqs |-> IdleReq]
    /\ calls = [c \in 1..MaxCalls |-> IdleCall]
    /\ spans = [o \in Owners |-> <<>>]
    /\ recorded = [i \in Instruments |-> EmptyBag]
    /\ logs = <<>>
    /\ helperCalls = <<>>
    /\ telemetry = NotInitialized

TelemetryNext ==
    \E ctx \in ProcessContexts, outs \in CleanupOutcomes :
        \/ \E failAt \in FailurePoints : InitTelemetry(ctx, failAt, outs)
        \/ Shutdown(ctx, outs)

TelemetrySpec == TelemetryInit /\ [][TelemetryNext]_vars

\* ------------------------------------------------- otelgin: request context
\* The context a request has when it reaches the middleware: the server's, or
\* one an earlier middleware of the chain derived from it.
EntryContexts ==
    { ContextWith(EmptyCarrier), [ContextWith(EmptyCarrier) EXCEPT !.baggage = "upstream"] }

\* Requests carrying the caller's trace context; /health is rejected by the filter.
ContextRequests ==
    { [method |-> "GET", path |-> pe[1], bodyErr |-> pe[2], body |-> "hi",
       header |-> [n \in {"Traceparent"} |-> <<FormatTraceParent(RemoteParent)>>]]
        : pe \in {<<"/hello", FALSE>>, <<"/hello", TRUE>>, <<"/health", FALSE>>} }

\* A downstream handler returns or panics, and may have replaced the request's
\* context before.
ContextOutcomes ==
    { [panic |-> FALSE, status |-> 200, size |-> 5, errors |-> FALSE, ctx |-> "kept"],
      [panic |-> FALSE, status |-> 200, size |-> 5, errors |-> FALSE, ctx |-> "replaced"],
      [panic |-> TRUE, status |-> 200, size |-> -1, errors |-> FALSE, ctx |-> "replaced"] }

HttpContextInit ==
    /\ Constructed(<<WithFilter(<<"notHealth">>)>>, RoleServer, <<>>, AllCreated)
    /\ reqs \in [1..MaxReqs -> {[IdleReq EXCEPT !.ctx = e, !.savedCtx = e] : e \in EntryContexts}]
    /\ calls = [c \in 1..MaxCalls |-> IdleCall]
    /\ NoTelemetry

HttpContextNext ==
    \E r \in 1..MaxReqs :
        \/ \E req \in ContextRequests : TracingEnter(r, req)
        \/ \E out \in ContextOutcomes : CNext(r, out)
        \/ TracingReturn(r)
        \/ TracingUnwind(r)

HttpContextSpec == HttpContextInit /\ [][HttpContextNext]_vars

\* ------------------------------------------------------------------ claims
HttpDuration == "http.server.request.duration"
RpcInst(suffix) == "rpc." \o mw.role \o suffix
RpcSpan(c) == spans[RpcOwner(c)][1]
ServerErrorCodes ==
    {"Unknown", "DeadlineExceeded", "Unimplemented", "Internal", "Unavailable", "DataLoss"}

\* C1: every HTTP request that all configured request filters admit has, once
\* the middleware is over, exactly one span opened, that span ended exactly
\* once, and exactly one sample on the duration histogram.
C1_AdmittedOneSpanOneSample ==
    \A r \in 1..MaxReqs :
        (/\ reqs[r].pc = "done"
         /\ \A i \in 1..Len(httpCfg.Filters) : Filter(httpCfg.Filters[i], reqs[r].req))
        => /\ Len(spans[HttpOwner(r)]) = 1
           /\ spans[HttpOwner(r)][1].ends = 1
           /\ SamplesOf(HttpDuration, HttpOwner(r)) = 1

\* C2: a call whose filter returned false at tag has its span ended exactly
\* once when its End event has been handled.
C2_FilteredSpanClosedAtEnd ==
    \A c \in 1..MaxCalls :
        (calls[c].pc = "ended" /\ ~calls[c].gctx.record)
        => (Len(spans[RpcOwner(c)]) = 1 /\ RpcSpan(c).ends = 1)

\* C3: for a call with recording enabled, the requests_per_rpc sample recorded
\* at End is the number of inbound payload events handled and the
\* responses_per_rpc sample the number of outbound payload events handled.
C3_MessageCountsRecorded ==
    \A c \in 1..MaxCalls :
        (calls[c].pc = "ended" /\ calls[c].gctx.record)
        => /\ \A s \in BagToSet(recorded[RpcInst(".requests_per_rpc")]) :
                s.owner = RpcOwner(c) => s.value = calls[c].inSeen
           /\ \A s \in BagToSet(recorded[RpcInst(".responses_per_rpc")]) :
                s.owner = RpcOwner(c) => s.value = calls[c].outSeen

\* C4: a call with recording enabled has exactly one span, opened at tag, not
\* ended by any event before End, and ended exactly once by End, whatever the
\* payload events in between.
C4_OneSpanPerRecordedCall ==
    \A c \in 1..MaxCalls :
        (calls[c].pc # "idle" /\ calls[c].gctx.record)
        => /\ Len(spans[RpcOwner(c)]) = 1
           /\ calls[c].pc = "tagged" => RpcSpan(c).ends = 0
           /\ calls[c].pc = "ended" => RpcSpan(c).ends = 1

C4_Witness ==
    \E c \in 1..MaxCalls :
        /\ calls[c].pc = "ended" /\ calls[c].gctx.record
        /\ calls[c].inSeen > 0 /\ calls[c].outSeen > 0
        /\ RpcSpan(c).ends = 1

\* C5: once a request or call is over, every span started for it has exactly
\* one sample on the duration histogram, on every path that ends it.
C5_EverySpanHasDurationSample ==
    /\ \A r \in 1..MaxReqs :
          reqs[r].pc = "done"
          => SamplesOf(HttpDuration, HttpOwner(r)) = Len(spans[HttpOwner(r)])
    /\ \A c \in 1..MaxCalls :
          calls[c].pc = "ended"
          => SamplesOf(RpcInst(".duration"), RpcOwner(c)) = Len(spans[RpcOwner(c)])

\* C6: an HTTP request that some configured request filter rejects gets no
\* span and no sample on any of the four instruments.
C6_RejectedNotTraced ==
    \A r \in 1..MaxReqs :
        (/\ reqs[r].pc # "idle"
         /\ \E i \in 1..Len(httpCfg.Filters) : ~Filter(httpCfg.Filters[i], reqs[r].req))
        => /\ spans[HttpOwner(r)] = <<>>
           /\ \A inst \in HttpInstruments : SamplesOf(inst, HttpOwner(r)) = 0

C6_Witness ==
    \E r \in 1..MaxReqs :
        /\ reqs[r].pc = "done" /\ reqs[r].handlerRuns = 1
        /\ Len(httpCfg.Filters) = 2
        /\ Filter(httpCfg.Filters[1], reqs[r].req)
        /\ ~Filter(httpCfg.Filters[2], reqs[r].req)
        /\ spans[HttpOwner(r)] = <<>>

\* C7: an HTTP request for which a registered GinFilter returns false gets no
\* span and no sample on any instrument.
C7_GinFilterRejectedNotTraced ==
    \A r \in 1..MaxReqs :
        (/\ reqs[r].pc # "idle"
         /\ \E i \in 1..Len(httpCfg.GinFilters) :
                ~GinFilter(httpCfg.GinFilters[i], reqs[r].req))
        => /\ spans[HttpOwner(r)] = <<>>
           /\ \A inst \in HttpInstruments : SamplesOf(inst, HttpOwner(r)) = 0

\* C8: in server role, after End: a terminal error with a code of the server
\* error set leaves the span with status Error and the status message; any
\* other non-nil error leaves it Unset with an empty message; a nil error
\* leaves the status Unset and the status-code attribute at the OK code.
C8_ServerEndStatus ==
    \A c \in 1..MaxCalls :
        (calls[c].pc = "ended" /\ isServer(mw.role))
        => LET e == calls[c].endError
               s == FromError(e)
           IN IF e.nil
              THEN /\ <<"rpc.grpc.status_code", CodeNumber.OK>> \in RpcSpan(c).attrs
                   /\ RpcSpan(c).status = "Unset"
              ELSE IF s.code \in ServerErrorCodes
              THEN RpcSpan(c).status = "Error" /\ RpcSpan(c).msg = s.msg
              ELSE RpcSpan(c).status = "Unset" /\ RpcSpan(c).msg = ""

\* C9: in client role, after End with a non-nil terminal error of any code,
\* the span has status Error and the status message.
C9_ClientEndStatus ==
    \A c \in 1..MaxCalls :
        (calls[c].pc = "ended" /\ ~isServer(mw.role) /\ ~calls[c].endError.nil)
        => /\ RpcSpan(c).status = "Error"
           /\ RpcSpan(c).msg = FromError(calls[c].endError).msg

\* C10: a call whose filter returned false at tag has no sample on any
\* instrument, whatever events were handled after tag.
C10_FilteredNoSamples ==
    \A c \in 1..MaxCalls :
        (calls[c].pc # "idle" /\ ~calls[c].gctx.record)
        => \A inst \in RpcInstrumentsOf(mw.role) : SamplesOf(inst, RpcOwner(c)) = 0

C10_Witness ==
    \E c \in 1..MaxCalls :
        /\ calls[c].pc = "ended" /\ ~calls[c].gctx.record
        /\ calls[c].inSeen > 0 /\ calls[c].outSeen > 0
        /\ \A inst \in RpcInstrumentsOf(mw.role) : SamplesOf(inst, RpcOwner(c)) = 0

\* C11: a hook invoked on a context that carries no Call Context is a no-op: it
\* leaves every span as it was and no instrument holds a sample recorded by it.
C11_UntaggedHookIsNoOp ==
    [][(\E rs \in RpcEvents : HandleRPCUntagged(rs))
          => (spans' = spans /\ recorded' = recorded)]_vars

\* The helper calls made with a context carrying span i of the application.
CallsOn(i) == LET OnSpan(call) == call.ctx.span = i IN SelectSeq(helperCalls, OnSpan)
Raising(cs) == LET Raises(call) == call.level \in {"warn", "error"} IN SelectSeq(cs, Raises)

\* C12: after any sequence of Info/Warn/Error calls on one span, the events of
\* the span are the messages of those calls, one per call and in order; its
\* status is Error with the message of the latest Warn/Error call when there
\* was one, and still Unset when there were Info calls only.
C12_EventsAndStatusFollowCalls ==
    \A i \in 1..Len(spans[AppOwner]) :
        LET cs == CallsOn(i)
            raised == Raising(cs)
            span == spans[AppOwner][i]
        IN /\ span.events = [j \in 1..Len(cs) |-> cs[j].message]
           /\ IF Len(raised) > 0
              THEN span.status = "Error" /\ span.msg = raised[Len(raised)].message
              ELSE span.status = "Unset" /\ span.msg = ""

\* A span that a Warn or Error call and then an Info call with another message
\* were made on.
C12_Witness ==
    \E i \in 1..Len(spans[AppOwner]) :
        LET cs == CallsOn(i)
        IN /\ Len(cs) = 2
           /\ cs[1].level \in {"warn", "error"}
           /\ cs[2].level = "info"
           /\ cs[2].message # cs[1].message
           /\ spans[AppOwner][i].status = "Error"

\* C13: for every helper call, the traceID and spanID fields of the log record
\* it emitted and the traceID and spanID attributes of the span it resolved are
\* the identifiers of that span, and every key the caller supplied is a key of
\* the log record and of the span's attributes.
C13_LogAndSpanCarrySpanIds ==
    \A k \in 1..Len(logs) :
        LET call == helperCalls[k]
            i == call.ctx.span
            sc == SpanContext(i)
            rec == logs[k].fields
            ValuesOf(key) == {rec[j].Value : j \in {n \in 1..Len(rec) : rec[n].Key = key}}
            attrs == spans[AppOwner][i].attrs
        IN /\ ValuesOf("traceID") = {StringValue(sc.TraceID)}
           /\ ValuesOf("spanID") = {StringValue(sc.SpanID)}
           /\ i # 0 => /\ {a[2] : a \in {b \in attrs : b[1] = "traceID"}} = {sc.TraceID}
                       /\ {a[2] : a \in {b \in attrs : b[1] = "spanID"}} = {sc.SpanID}
           /\ \A n \in 1..Len(call.fields) :
                 /\ ValuesOf(call.fields[n].Key) # {}
                 /\ i # 0 => \E a \in attrs : a[1] = call.fields[n].Key

\* C14: a helper call with a context that carries no span completes, emitting
\* its log record, and leaves every span as it was.
C14_NoSpanNoEffect ==
    [][(\E message \in Messages, fields \in FieldLists :
            \/ Info(Background, message, fields)
            \/ Warn(Background, message, fields)
            \/ Error(Background, message, fields))
          => (spans' = spans /\ Len(logs') = Len(logs) + 1)]_vars

\* A Warn or Error call was made with the background context while a span of
\* the application was open.
C14_Witness ==
    /\ Len(spans[AppOwner]) > 0
    /\ \E k \in 1..Len(helperCalls) :
          /\ helperCalls[k].ctx = Background
          /\ helperCalls[k].level \in {"warn", "error"}
          /\ \A j \in 1..(k - 1) : helperCalls[j].ctx # Background

\* C15: a request whose body could not be read for sizing is aborted with
\* status 500 and the downstream handler does not run for it; no request is
\* aborted by the middleware for another reason.
C15_BodyReadFailureAborts ==
    \A r \in 1..MaxReqs :
        LET c == reqs[r]
        IN c.pc # "idle" =>
              /\ (c.traced /\ c.req.bodyErr) =>
                    (c.aborted /\ c.status = 500 /\ c.handlerRuns = 0)
              /\ c.aborted => (c.traced /\ c.req.bodyErr)
              /\ (c.pc = "done" /\ ~c.aborted) => c.handlerRuns = 1

\* A request with an unreadable body has been served: aborted, the handler
\* skipped, while another request ran its handler.
C15_Witness ==
    \E r, q \in 1..MaxReqs :
        /\ reqs[r].pc = "done" /\ reqs[r].req.bodyErr /\ reqs[r].aborted
        /\ reqs[r].handlerRuns = 0
        /\ reqs[q].pc = "done" /\ reqs[q].handlerRuns = 1

\* C16: the downstream handler that reads the request body obtains the bytes
\* of the original body, whether the middleware sized the request before or
\* passed it through untouched.
C16_DownstreamReadsOriginalBody ==
    \A r \in 1..MaxReqs :
        LET c == reqs[r]
        IN (c.handlerRuns > 0 /\ ~c.req.bodyErr) =>
              (~c.bodyRead.err /\ c.bodyRead.data = c.req.body)

\* The handler of a sized request with a non-empty body has read that body.
C16_Witness ==
    \E r \in 1..MaxReqs :
        /\ reqs[r].traced /\ reqs[r].handlerRuns = 1
        /\ reqs[r].reqSize > Len(reqs[r].req.body)
        /\ reqs[r].bodyRead.data = "hello!"

\* The instruments of the two constructed middlewares, in creation order, and
\* the config field of each.
BuiltOrder == HttpInstrumentOrder \o RpcInstrumentOrder(mw.role)
Built(i) == IF i \in HttpInstruments THEN httpCfg.instruments[i] ELSE mw.config.instruments[i]

\* C17: every instrument whose creation failed was reported to the error
\* handler, in creation order; every instrument field is non-nil, a no-op
\* instrument where the meter returned none; no request and no call fails on an
\* instrument, and a served request or call has its sample on exactly the real
\* instruments.
C17_FailedInstrumentsDegrade ==
    LET Failed(i) == created[i] # "ok"
    IN /\ handled = SelectSeq(BuiltOrder, Failed)
       /\ \A i \in Range(BuiltOrder) :
             Built(i) = IF created[i] = "errNil" THEN "noop" ELSE "real"
       /\ \A r \in 1..MaxReqs : ~reqs[r].crashed
       /\ \A c \in 1..MaxCalls : ~calls[c].crashed
       /\ reqs[1].pc = "done" =>
             \A i \in HttpInstruments :
                SamplesOf(i, HttpOwner(1)) = IF Built(i) = "real" THEN 1 ELSE 0
       /\ calls[1].pc = "ended" =>
             SamplesOf("rpc." \o mw.role \o ".duration", RpcOwner(1))
                = IF Built("rpc." \o mw.role \o ".duration") = "real" THEN 1 ELSE 0

\* Every creation failed with no instrument returned, and a request and a call
\* have been served to their end.
C17_Witness ==
    /\ \A i \in Instruments : created[i] = "errNil"
    /\ Len(handled) = Len(BuiltOrder)
    /\ reqs[1].pc = "done" /\ reqs[1].handlerRuns = 1
    /\ calls[1].pc = "ended" /\ calls[1].inSeen > 0

\* C18: each middleware draws its tracer and its meter from the provider its
\* options resolved to, the supplied one or else the global one, and every
\* span it starts is a span of that tracer provider.
C18_SuppliedProvidersUsed ==
    /\ httpCfg.tracer = httpCfg.TracerProvider
    /\ httpCfg.meter = httpCfg.MeterProvider
    /\ mw.config.tracer = mw.config.TracerProvider
    /\ mw.config.meter = mw.config.MeterProvider
    /\ \A r \in 1..MaxReqs : \A i \in 1..Len(spans[HttpOwner(r)]) :
          spans[HttpOwner(r)][i].provider = httpCfg.TracerProvider
    /\ \A c \in 1..MaxCalls : \A i \in 1..Len(spans[RpcOwner(c)]) :
          spans[RpcOwner(c)][i].provider = mw.config.TracerProvider

\* The attributes of the samples recorded for request r.
SampleAttrsOf(r) ==
    UNION {{smp.attrs : smp \in {x \in BagToSet(recorded[i]) : x.owner = HttpOwner(r)}}
              : i \in HttpInstruments}
HasRoute(attrs) == \E a \in attrs : a[1] = "http.route"

\* C19: the span of a request is named by the formatter's result when a
\* formatter is configured and yields a name, otherwise by the matched route,
\* otherwise by the literal "HTTP <method> route not found".
C19_SpanNameFallsBackToRoute ==
    \A r \in 1..MaxReqs :
        reqs[r].traced =>
            LET req == reqs[r].req
                formatted == IF httpCfg.SpanNameFormatter = "nil" THEN ""
                             ELSE SpanNameFormatter(httpCfg.SpanNameFormatter, req)
            IN spans[HttpOwner(r)][1].name =
                  IF formatted # "" THEN formatted
                  ELSE IF FullPath(req) # "" THEN FullPath(req)
                  ELSE "HTTP " \o req.method \o " route not found"

\* C20: without formatter, the span of a request of method M that matched no
\* route is named "HTTP M route not found" and neither the span nor the metric
\* attributes carry a route attribute; when a name was chosen, the span and
\* every sample of the request carry it as route attribute.
C20_RouteAttributeFollowsName ==
    \A r \in 1..MaxReqs :
        reqs[r].traced =>
            LET req == reqs[r].req
                span == spans[HttpOwner(r)][1]
                named == IF httpCfg.SpanNameFormatter = "nil" THEN FullPath(req)
                         ELSE SpanNameFormatter(httpCfg.SpanNameFormatter, req)
                everywhere == {span.attrs, reqs[r].metricAttrs} \cup SampleAttrsOf(r)
            IN /\ (httpCfg.SpanNameFormatter = "nil" /\ FullPath(req) = "") =>
                     /\ span.name = "HTTP " \o req.method \o " route not found"
                     /\ \A attrs \in everywhere : ~HasRoute(attrs)
               /\ named = "" => \A attrs \in everywhere : ~HasRoute(attrs)
               /\ named # "" =>
                     /\ span.name = named
                     /\ \A attrs \in everywhere :
                           {a \in attrs : a[1] = "http.route"} = {<<"http.route", named>>}

\* Without formatter, a POST that matched no route and a request that matched
\* one have both been served.
C20_Witness ==
    /\ httpCfg.SpanNameFormatter = "nil"
    /\ \E r, q \in 1..MaxReqs :
          /\ reqs[r].pc = "done" /\ reqs[r].req.method = "POST"
          /\ FullPath(reqs[r].req) = ""
          /\ spans[HttpOwner(r)][1].name = "HTTP POST route not found"
          /\ reqs[q].pc = "done" /\ FullPath(reqs[q].req) = "/hello"
          /\ <<"http.route", "/hello">> \in spans[HttpOwner(q)][1].attrs

\* The values of the samples request r has on an instrument.
SampleValuesOf(inst, r) ==
    {smp.value : smp \in {x \in BagToSet(recorded[inst]) : x.owner = HttpOwner(r)}}

\* C21: the response-size sample of a request is never negative: it is 0 when
\* the response writer reports a negative size, and the reported size otherwise.
C21_ResponseSizeNotNegative ==
    /\ \A smp \in BagToSet(recorded["http.server.response.body.size"]) : smp.value >= 0
    /\ \A r \in 1..MaxReqs :
          (reqs[r].pc = "done" /\ reqs[r].traced /\ ~reqs[r].panicked) =>
              SampleValuesOf("http.server.response.body.size", r)
                 = {IF reqs[r].size < 0 THEN 0 ELSE reqs[r].size}

\* One served request whose writer reported -1 and one whose writer reported a
\* positive size.
C21_Witness ==
    \E r, q \in 1..MaxReqs :
        /\ reqs[r].pc = "done" /\ reqs[r].traced /\ reqs[r].size = -1
        /\ SampleValuesOf("http.server.response.body.size", r) = {0}
        /\ reqs[q].pc = "done" /\ reqs[q].traced /\ reqs[q].size > 0
        /\ SampleValuesOf("http.server.response.body.size", q) = {reqs[q].size}

\* The bytes the request size counts, each named by its place: the bytes of
\* every header name, two more per header, the bytes of every header value,
\* and the bytes of the body.
CountedBytes(req) ==
    UNION {{<<"name", n, 0, i>> : i \in 1..Len(n)} : n \in DOMAIN req.header}
       \cup {<<"separator", n, 0, i>> : n \in DOMAIN req.header, i \in 1..2}
       \cup UNION {UNION {{<<"value", n, j, i>> : i \in 1..Len(req.header[n][j])}
                            : j \in 1..Len(req.header[n])}
                      : n \in DOMAIN req.header}
       \cup {<<"body", "", 0, i>> : i \in 1..Len(req.body)}

\* C22: the request size recorded for a request whose body was read is the sum,
\* over its headers, of the length of the name plus 2 plus the lengths of all
\* its values, plus the length of the whole body.
C22_RequestSizeIsHeadersPlusBody ==
    \A r \in 1..MaxReqs :
        (reqs[r].pc = "done" /\ reqs[r].traced /\ ~reqs[r].req.bodyErr) =>
            SampleValuesOf("http.server.request.body.size", r)
               = {Cardinality(CountedBytes(reqs[r].req))}

\* Served requests of sizes 11 (one header, empty body) and 26 (two headers,
\* one of them with two values and one with none, and a body of 6 bytes).
C22_Witness ==
    \E r, q \in 1..MaxReqs :
        /\ reqs[r].pc = "done" /\ reqs[q].pc = "done"
        /\ SampleValuesOf("http.server.request.body.size", r) = {11}
        /\ SampleValuesOf("http.server.request.body.size", q) = {26}
        /\ Cardinality(DOMAIN reqs[q].req.header) = 2

\* The cleanup functions registered so far: each is appended to shutdownFuncs
\* right after the provider it belongs to was installed.
Registered ==
    {CleanupOrder[i] : i \in {j \in 1..3 :
        telemetry.globals[<<"TracerProvider", "MeterProvider", "LoggerProvider">>[j]] = GlobalProvider}}
InvocationsOf(fn) == {i \in 1..Len(telemetry.invoked) : telemetry.invoked[i].fn = fn}
RECURSIVE ErrorsOf(_)
ErrorsOf(invocations) ==
    IF invocations = <<>> THEN <<>>
    ELSE Head(invocations).err \o ErrorsOf(Tail(invocations))

\* C23: no cleanup function is ever invoked twice and only registered ones are
\* invoked; once InitTelemetry has returned an error or a shutdown call has
\* returned, every registered cleanup function has been invoked exactly once,
\* however many shutdown calls were made; each shutdown call returns the join, in
\* order, of the errors of the cleanup functions that call invoked.
C23_CleanupsRunExactlyOnce ==
    /\ \A fn \in Cleanups :
          /\ Cardinality(InvocationsOf(fn)) <= 1
          /\ InvocationsOf(fn) # {} => fn \in Registered
          /\ (fn \in Registered /\ (telemetry.results # <<>> \/ telemetry.err # <<>>))
                => Cardinality(InvocationsOf(fn)) = 1
    /\ \A k \in 1..Len(telemetry.results) :
          LET res == telemetry.results[k]
          IN res.err = ErrorsOf(SubSeq(telemetry.invoked, res.from, res.to))
C23_Witness ==
    /\ telemetry.shutdown = "sendAllBeforeShutdown"
    /\ Len(telemetry.results) = 2
    /\ Len(telemetry.results[1].err) = 2
    /\ telemetry.results[2].err = <<>>
    /\ Len(telemetry.invoked) = 3

\* The trace id and span id of a span context.
IDsOf(sc) == <<sc.TraceID, sc.SpanID>>

\* C24: extracting from the carrier a client tag injected into yields the trace
\* id and span id of the span that tag opened; injecting a context that has no
\* span into an empty carrier writes nothing; a tag whose incoming carrier has no
\* trace context, or a malformed one, opens a root span of a new trace and does
\* not fail.
C24_CodecRoundTrip ==
    /\ \A ctx \in IncomingContexts :
          Inject(mw.config.Propagators, ctx, EmptyCarrier) = EmptyCarrier
    /\ \A c \in 1..MaxCalls :
          calls[c].pc # "idle" =>
              LET span == spans[RpcOwner(c)][1]
                  back == Extract(mw.config.Propagators, ContextWith(EmptyCarrier),
                                  calls[c].ctx.outgoing)
              IN /\ ~isServer(mw.role) => IDsOf(back.sc) = IDsOf(span.sc)
                 /\ IsValid(span.sc)
                 /\ ~calls[c].crashed
                 /\ calls[c].given.incoming \in MalformedCarriers =>
                        /\ span.parent = NoSpanContext
                        /\ span.sc.TraceID = NewIDs(RpcOwner(c)).TraceID
                 /\ calls[c].given.incoming \in WellFormedCarriers =>
                        /\ span.parent = RemoteParent
                        /\ span.sc.TraceID = RemoteParent.TraceID
C24_Witness ==
    /\ ~isServer(mw.role)
    /\ calls[1].pc # "idle"
    /\ calls[1].given.incoming \in MalformedCarriers \ {EmptyCarrier}
    /\ Get(calls[1].ctx.outgoing, "traceparent") =
          "00-4bf92f3577b34da6a3ce929d0e0e4731-00f067aa0ba902b1-01"

\* The samples of request r recorded in rec, per instrument.
HttpSamplesIn(rec, r) ==
    [i \in HttpInstruments |-> {x \in BagToSet(rec[i]) : x.owner = HttpOwner(r)}]

\* C25: for an admitted request, a step in which the downstream handler runs
\* starts and ends with the request's span open; a step that records a sample of
\* the request is taken after c.Next() returned, with the span still open, and
\* closes the span; when the span of a request whose handler returned is closed,
\* the size, duration and active-request samples are there.
C25_SpanBracketsHandlerAndSamples ==
    [][\A r \in 1..MaxReqs :
         LET o == HttpOwner(r)
         IN /\ (reqs[r].traced /\ reqs'[r].handlerRuns # reqs[r].handlerRuns) =>
                  /\ Len(spans[o]) = 1 /\ spans[o][1].ends = 0
                  /\ spans'[o][1].ends = 0
            /\ HttpSamplesIn(recorded', r) # HttpSamplesIn(recorded, r) =>
                  /\ reqs[r].pc = "after"
                  /\ spans[o][1].ends = 0
                  /\ spans'[o][1].ends = 1
            /\ (reqs'[r].pc = "done" /\ reqs'[r].traced /\ ~reqs'[r].panicked) =>
                  /\ spans'[o][1].ends = 1
                  /\ \A i \in HttpInstruments : HttpSamplesIn(recorded', r)[i] # {}
    ]_vars
C25_Witness ==
    \E r \in 1..MaxReqs :
        /\ reqs[r].pc = "done" /\ reqs[r].traced /\ reqs[r].handlerRuns = 1
        /\ ~reqs[r].panicked
        /\ spans[HttpOwner(r)][1].ends = 1
        /\ \A i \in HttpInstruments : HttpSamplesIn(recorded, r)[i] # {}

\* C26: the filters evaluated for a request are a prefix of the registered
\* filters, in registration order, each with its own result; every filter before
\* the last evaluated returned true, and the prefix is shorter than the list only
\* when its last filter returned false; the request is traced exactly when all
\* registered filters were evaluated and returned true; traced or not, c.Next()
\* is called once by the time the handler is done and never more.
C26_FiltersInOrderAndNextOnce ==
    \A r \in 1..MaxReqs :
        LET ev == reqs[r].evaluated
            fs == httpCfg.Filters
        IN /\ reqs[r].nextCalls <= 1
           /\ reqs[r].pc = "done" => reqs[r].nextCalls = 1
           /\ reqs[r].pc # "idle" =>
                 /\ Len(ev) <= Len(fs)
                 /\ \A i \in 1..Len(ev) :
                       /\ ev[i].f = fs[i]
                       /\ ev[i].result = Filter(fs[i], reqs[r].req)
                       /\ i < Len(ev) => ev[i].result
                 /\ Len(ev) < Len(fs) => ~ev[Len(ev)].result
                 /\ reqs[r].traced <=> (Len(ev) = Len(fs) /\ \A i \in 1..Len(ev) : ev[i].result)
C26_Witness ==
    \E r, q \in 1..MaxReqs :
        /\ Len(httpCfg.Filters) = 2
        /\ reqs[r].pc = "done" /\ ~reqs[r].traced
        /\ Len(reqs[r].evaluated) = 1 /\ reqs[r].nextCalls = 1
        /\ reqs[q].pc = "done" /\ reqs[q].traced
        /\ Len(reqs[q].evaluated) = 2 /\ reqs[q].nextCalls = 1

\* The samples of call c recorded in rec, per instrument.
RpcSamplesIn(rec, c) ==
    [i \in RpcInstrumentsOf(mw.role) |-> {x \in BagToSet(rec[i]) : x.owner = RpcOwner(c)}]
HasStatusCode(attrs) == \E a \in attrs : a[1] = "rpc.grpc.status_code"

\* C27: no hook changes the metric-attribute snapshot or the record flag that
\* the tag wrote into the Call Context; the snapshot never holds the status-code
\* attribute, nor does the copy held by a payload hook in progress, nor a payload
\* sample, also when the End hook of the call ran meanwhile.
C27_SnapshotWrittenOnce ==
    [][\A c \in 1..MaxConcurrent :
         /\ calls[c].pc # "idle" =>
               /\ calls'[c].gctx.metricAttrs = calls[c].gctx.metricAttrs
               /\ calls'[c].gctx.record = calls[c].gctx.record
         /\ calls'[c].pc # "idle" =>
               /\ ~HasStatusCode(calls'[c].gctx.metricAttrs)
               /\ \A f \in calls'[c].inFlight :
                     f.rs.type = "InPayload" => f.metricAttrs = calls'[c].gctx.metricAttrs
               /\ \A x \in RpcSamplesIn(recorded', c)["rpc." \o mw.role \o ".request.size"] :
                     x.attrs = calls'[c].gctx.metricAttrs
    ]_vars
C27_Witness ==
    \E c \in 1..MaxConcurrent :
        /\ calls[c].pc = "ended"
        /\ \E f \in calls[c].inFlight : f.rs.type = "InPayload"
        /\ \E x \in RpcSamplesIn(recorded, c)["rpc." \o mw.role \o ".duration"] :
               HasStatusCode(x.attrs)
        /\ RpcSamplesIn(recorded, c)["rpc." \o mw.role \o ".request.size"] # {}

\* C28: the role of a middleware never changes; the span a tag opens has kind
\* server under the server role and kind client under the client role; a server
\* tag leaves the outgoing carrier as it was, and a client tag leaves in it the
\* traceparent of the very span it opened.
C28_RoleFixesKindAndInjection ==
    [][/\ mw'.role = mw.role
       /\ \A c \in 1..MaxCalls :
             calls'[c].pc # "idle" =>
                 LET span == spans'[RpcOwner(c)][1]
                     out == calls'[c].ctx.outgoing
                 IN /\ mw.role = RoleServer =>
                          /\ span.kind = "server"
                          /\ out = calls'[c].given.outgoing
                    /\ mw.role = RoleClient =>
                          /\ span.kind = "client"
                          /\ "traceparent" \in DOMAIN out
                          /\ out["traceparent"] =
                                <<"00-" \o span.sc.TraceID \o "-" \o span.sc.SpanID \o "-01">>
                          /\ span.sc.SpanID = NewIDs(RpcOwner(c)).SpanID
    ]_vars
C28_Witness ==
    /\ mw.role = RoleClient
    /\ calls[1].pc = "ended"
    /\ calls[1].given.incoming \in WellFormedCarriers
    /\ spans[RpcOwner(1)][1].kind = "client"
    /\ calls[1].ctx.outgoing["traceparent"] =
          <<"00-0af7651916cd43dd8448eb211c80319c-00f067aa0ba902b1-01">>

\* C29: a step taken for one call leaves the Call Context, the hooks in
\* progress, the span and the samples of every other call as they were; a tag
\* gives its call one new span, with a span id no other call has, and a Call
\* Context with zero counters; whatever the interleaving, the span and the
\* samples of a call carry the service and method of that call's own tag.
C29_CallsAreIsolated ==
    [][LET changed == {c \in 1..MaxConcurrent : calls'[c] # calls[c]}
           touched ==
               UNION {{x.owner : x \in {y \in BagToSet(recorded'[i]) :
                                           CopiesIn(y, recorded'[i]) # CopiesIn(y, recorded[i])}}
                      : i \in RpcInstrumentsOf(mw.role)}
       IN /\ Cardinality(changed) <= 1
          /\ touched \subseteq {RpcOwner(c) : c \in changed}
          /\ \A d \in (1..MaxConcurrent) \ changed :
                spans'[RpcOwner(d)] = spans[RpcOwner(d)]
          /\ \A c \in changed :
                LET o == RpcOwner(c)
                    own == ParseFullMethod(calls'[c].info)
                IN /\ calls[c].pc = "idle" =>
                         /\ spans[o] = <<>> /\ Len(spans'[o]) = 1
                         /\ calls'[c].gctx.messagesReceived = 0
                         /\ calls'[c].gctx.messagesSent = 0
                         /\ \A d \in (1..MaxConcurrent) \ {c} :
                               \A i \in 1..Len(spans'[RpcOwner(d)]) :
                                   spans'[RpcOwner(d)][i].sc.SpanID # spans'[o][1].sc.SpanID
                   /\ spans'[o][1].name = own.name
                   /\ own.attrs \subseteq calls'[c].gctx.metricAttrs
                   /\ \A f \in calls'[c].inFlight : own.attrs \subseteq f.metricAttrs
                   /\ \A i \in RpcInstrumentsOf(mw.role) :
                         \A x \in BagToSet(recorded'[i]) :
                             x.owner = o => own.attrs \subseteq x.attrs
    ]_vars
C29_Witness ==
    /\ calls[1].pc = "ended" /\ calls[2].pc = "tagged"
    /\ calls[1].info # calls[2].info
    /\ calls[2].inFlight # {}
    /\ \A c \in 1..2 : RpcSamplesIn(recorded, c)["rpc." \o mw.role \o ".request.size"] # {}
    /\ spans[RpcOwner(1)][1].ends = 1 /\ spans[RpcOwner(2)][1].ends = 0

\* The arguments of the options named opt in an option list, in order, and the
\* last of those that is not nil.
ArgsOf(opts, opt) ==
    LET named == SelectSeq(opts, LAMBDA o : o.opt = opt)
    IN [i \in 1..Len(named) |-> named[i].arg]
RECURSIVE Flattened(_)
Flattened(lists) == IF lists = <<>> THEN <<>> ELSE Head(lists) \o Flattened(Tail(lists))
LastGiven(args, nil, default) ==
    LET given == SelectSeq(args, LAMBDA a : a # nil)
    IN IF given = <<>> THEN default ELSE given[Len(given)]

\* C30: each provider and propagator field of both configs holds the argument of
\* the last option of its kind that is not nil, the global one when there is
\* none, so an option carrying nil changes nothing; the HTTP filter list is the
\* filters of all WithFilter options in the order given; the RPC filter is that
\* of the last WithFilter option that is not nil.
C30_OptionsApplyInOrder ==
    LET ho == httpCfg.opts
        ro == mw.opts
    IN /\ httpCfg.Filters = Flattened(ArgsOf(ho, "WithFilter"))
       /\ httpCfg.TracerProvider = LastGiven(ArgsOf(ho, "WithTracerProvider"), "nil", GlobalProvider)
       /\ httpCfg.MeterProvider = LastGiven(ArgsOf(ho, "WithMeterProvider"), "nil", GlobalProvider)
       /\ httpCfg.Propagators =
             LastGiven(ArgsOf(ho, "WithPropagators"), NilPropagator, GlobalPropagator)
       /\ mw.config.Filter = LastGiven(ArgsOf(ro, "WithFilter"), "nil", "nil")
       /\ mw.config.TracerProvider =
             LastGiven(ArgsOf(ro, "WithTracerProvider"), "nil", GlobalProvider)
       /\ mw.config.MeterProvider =
             LastGiven(ArgsOf(ro, "WithMeterProvider"), "nil", GlobalProvider)
       /\ mw.config.Propagators =
             LastGiven(ArgsOf(ro, "WithPropagators"), NilPropagator, GlobalPropagator)
C30_Witness ==
    /\ httpCfg.opts = <<WithFilter(<<"notHealth">>), WithFilter(<<"notVersion", "notHealth">>)>>
    /\ httpCfg.Filters = <<"notHealth", "notVersion", "notHealth">>
    /\ mw.opts = <<RpcWithFilter("notHealth"), RpcWithFilter("none")>>
    /\ mw.config.Filter = "none"

\* C31: once InitTelemetry has returned, on whichever path, the shutdown
\* function it returned is not nil and calling it does not panic; when it
\* returned an error, no cleanup function is left registered and every cleanup
\* function registered before the failure has been invoked.
C31_ShutdownAlwaysCallable ==
    telemetry.pc = "initialized" =>
        /\ telemetry.shutdown \in {"finalShutdown", "sendAllBeforeShutdown"}
        /\ ~telemetry.panicked
        /\ telemetry.err # <<>> =>
              /\ telemetry.shutdownFuncs = <<>>
              /\ \A fn \in Registered : InvocationsOf(fn) # {}

\* The cumulative value of an up-down counter: the sum of the values added to it.
RECURSIVE SumOfAdds(_, _)
SumOfAdds(bag, samples) ==
    IF samples = {} THEN 0
    ELSE LET smp == CHOOSE x \in samples : TRUE
         IN smp.value * CopiesIn(smp, bag) + SumOfAdds(bag, samples \ {smp})
ActiveRequests ==
    SumOfAdds(recorded["http.server.active_requests"],
              BagToSet(recorded["http.server.active_requests"]))
\* The admitted requests the middleware has returned from, normally or not.
CompletedAdmitted == {r \in 1..MaxReqs : reqs[r].traced /\ reqs[r].pc = "done"}

\* C32: every value added to the active-requests counter is 1, none is
\* negative; a request has a sample on it only when it was admitted, c.Next()
\* has returned and the middleware is over, and never more than one; every
\* admitted request the middleware is over with has one, so the counter's
\* cumulative value is the number of admitted requests completed, whatever the
\* other requests are doing.
C32_ActiveRequestsCountsCompleted ==
    /\ \A smp \in BagToSet(recorded["http.server.active_requests"]) : smp.value = 1
    /\ \A r \in 1..MaxReqs :
          SamplesOf("http.server.active_requests", HttpOwner(r)) =
             IF r \in CompletedAdmitted THEN 1 ELSE 0
    /\ \A r \in 1..MaxReqs :
          SamplesOf("http.server.active_requests", HttpOwner(r)) > 0 =>
             reqs[r].nextCalls = 1
    /\ ActiveRequests = Cardinality(CompletedAdmitted)

\* The context the request had when it reached the middleware.
EntryContext(r) == IF reqs[r].pc = "idle" THEN reqs[r].ctx ELSE reqs[r].savedCtx
\* The context carries the span the middleware opened for the request.
CarriesSpanOf(ctx, r) ==
    /\ Len(spans[HttpOwner(r)]) = 1
    /\ ctx.sc = spans[HttpOwner(r)][1].sc

====
